---- MODULE Spec2Model ----
(***************************************************************************)
(* Model of the perimeter backend: the per-day aggregation store           *)
(* (HistoricalDataStore), the OTX pulse adapter (OTXClient) with its TTL   *)
(* cache, and the AbuseIPDB blacklist adapter (AbuseIPDBClient).           *)
(*                                                                         *)
(* The program runs on one asyncio event loop.  A coroutine can be         *)
(* descheduled only where the source writes await / async with, so every   *)
(* action below is the code between two such places.                       *)
(*                                                                         *)
(* Conventions                                                             *)
(*   - a datetime at midnight is a day number; the store is keyed by the   *)
(*     day its key string is formatted from (strftime is one-to-one), and  *)
(*     the key strings themselves are computed where the code compares or  *)
(*     sorts strings: get_available_dates and the routes;                  *)
(*   - a tag or a TLP value is the tuple of its characters, so that        *)
(*     lower() and the substring tests are computed;                       *)
(*   - confidence is kept in hundredths (0.6 is 60), severity sums in      *)
(*     halves where the code adds 0.5;                                     *)
(*   - the random module is a deterministic stream of a seed that each     *)
(*     call draws nondeterministically; uuid4 ids are <<task, index>>;     *)
(*   - the lat/lng jitter of an event is left out; the float arithmetic    *)
(*     of calculate_severity is computed bit for bit.                      *)
(***************************************************************************)
EXTENDS Integers, Sequences, FiniteSets, TLC

\* ------------------------------------------------------------------- state

VARIABLES
  api_key,              \* OTXClient.api_key is set (settings.OTX_API_KEY)
  abuse_key,            \* AbuseIPDBClient.api_key is set (the field of a constructed
                        \* client; config.py itself defines no ABUSEIPDB_API_KEY)
  events_by_date,       \* HistoricalDataStore.events_by_date
  processed_pulse_ids,  \* HistoricalDataStore._processed_pulse_ids
  lock,                 \* HistoricalDataStore._lock: 0 free, else the holder
  pulse_cache,          \* OTXClient._pulse_cache
  cache_timestamps,     \* OTXClient._cache_timestamps
  now,                  \* datetime.now(), in seconds
  ticks,                \* how often the clock has advanced
  pc,                   \* where each task's coroutine stands
  op,                   \* the operation the task runs
  date,                 \* fetch_and_aggregate: date_str
  target,               \* get_pulse_by_id: pulse_id
  seed,                 \* the random draws of the call
  pulses,               \* fetch_and_aggregate: pulses (a local, gone at return)
  events,               \* fetch_and_aggregate: events (a local, gone at return)
  requests,             \* GETs the call has issued
  result,               \* what the adapter call of the task returned
  emitted,              \* history: pulse id -> the tasks that built events for it
  inflight,             \* history: the fetches in flight when the task started
  last_writer,          \* history: date -> the task that assigned the entry last
  call,                 \* a function of the program called on its own: name, arguments
  reply,                \* what that call returned
  http,                 \* task -> the HTTP request it serves: route, date, response
  year_padded,          \* the platform: whether strftime pads %Y to four digits
  days_ago,             \* main.py lifespan: the loop variable (0 before the loop)
  serving               \* the application is past the yield of lifespan

vars ==
  << api_key, abuse_key, events_by_date, processed_pulse_ids, lock, pulse_cache,
     cache_timestamps, now, ticks, pc, op, date, target, seed, pulses, events,
     requests, result, emitted, inflight, last_writer, call, reply, http,
     year_padded, days_ago, serving >>

\* ------------------------------------------------------------------ bounds

MaxTasks == 2
MaxDates == 2
MaxPulseIds == 3
MaxResp == 2
MaxSeedIx == 1
MaxTicks == 3
MaxReports == 100     \* report counts handed to calculate_severity
MaxTags == 2          \* length of the tag lists handed to the classifiers
MaxMidnights == 1     \* midnights that pass while the application starts

Tasks == 1..MaxTasks
\* Days are numbered in calendar order.  Dates are days of a four-digit year,
\* the dates fetch_and_aggregate is called with at startup; the routes hand
\* it whatever date a request names, and AllDates adds a day of a year below
\* 1000 (day 0), which strftime does not print alike on every platform.
Dates == 1..MaxDates
AllDates == 0..MaxDates
PulseIds == 1..MaxPulseIds
Seeds == {50 * k : k \in 0..MaxSeedIx}

\* ------------------------------------------------------- program constants

OTX_CACHE_TTL == 3600
SecondsPerDay == 86400
MaxEventsPerPulse == 5
SyntheticMin == 30
SyntheticMax == 80
StartupDays == 7      \* main.py line 25: range(1, 8)

\* The day on which the process starts, in the startup specification: late
\* enough for the days before it to be days of the year 2024.
BootDay == StartupDays + 1

\* Every day a call of fetch_and_aggregate is made for, in any specification.
LastDay ==
  IF MaxDates > BootDay + MaxMidnights THEN MaxDates ELSE BootDay + MaxMidnights

AllDays == 0..LastDay

COUNTRY_LOCATIONS ==
  << "US", "CN", "RU", "IN", "BR", "JP", "DE", "GB", "FR", "AU", "CA", "KR",
     "IT", "ES", "MX", "NL", "SE", "PL", "TR", "UA", "IR", "KP", "VN", "TH",
     "ID" >>

ATTACK_TYPES == << "ddos", "bot", "bruteforce" >>

\* ------------------------------------------------------------ random module

\* The k-th draw of the stream seeded with sd.  (Operator parameters avoid
\* the names of the variables: sd for a seed, ps for a list of pulses.)
Rand(sd, k) == (sd + (23 * k) + ((k * k) % 7)) % 1009

\* random.choice(list) on draw x.
Choice(list, x) == list[(x % Len(list)) + 1]

\* random.randint(a, b) on draw x.
RandInt(a, b, x) == a + (x % (b - a + 1))

\* A variant of the comprehension without its filter.
AnyCountry(source_country) == COUNTRY_LOCATIONS

\* [c for c in COUNTRY_LOCATIONS.keys() if c != source_country]
OtherCountries(source_country) ==
  SelectSeq(COUNTRY_LOCATIONS, LAMBDA c : c # source_country)

\* The same lists, computed once: entry i is the list for COUNTRY_LOCATIONS[i].
OtherCountriesTable ==
  [ i \in 1..Len(COUNTRY_LOCATIONS) |-> OtherCountries(COUNTRY_LOCATIONS[i]) ] \o << >>

\* source_country = random.choice(list(COUNTRY_LOCATIONS.keys()))
\* target_country = random.choice([c for c in ... if c != source_country])
\* on the draws x and y.
CountryPair(x, y) ==
  LET i == (x % Len(COUNTRY_LOCATIONS)) + 1
  IN  [ source |-> COUNTRY_LOCATIONS[i], target |-> Choice(OtherCountriesTable[i], y) ]

\* ------------------------------------------------------------------ strings

UpperChars ==
  << "A", "B", "C", "D", "E", "F", "G", "H", "I", "J", "K", "L", "M",
     "N", "O", "P", "Q", "R", "S", "T", "U", "V", "W", "X", "Y", "Z" >>

LowerChars ==
  << "a", "b", "c", "d", "e", "f", "g", "h", "i", "j", "k", "l", "m",
     "n", "o", "p", "q", "r", "s", "t", "u", "v", "w", "x", "y", "z" >>

LowerChar(ch) ==
  IF \E i \in 1..26 : UpperChars[i] = ch
  THEN LowerChars[CHOOSE i \in 1..26 : UpperChars[i] = ch]
  ELSE ch

\* str.lower()
Lower(s) == [i \in 1..Len(s) |-> LowerChar(s[i])]

\* sub in s
Contains(sub, s) ==
  \E i \in 0..(Len(s) - Len(sub)) : SubSeq(s, i + 1, i + Len(sub)) = sub

\* ------------------------------------------------------------ date strings

DigitChars == << "0", "1", "2", "3", "4", "5", "6", "7", "8", "9" >>

IsDigit(ch) == \E i \in 1..10 : DigitChars[i] = ch

DigitValue(ch) == (CHOOSE i \in 1..10 : DigitChars[i] = ch) - 1

AllDigits(s) == \A i \in 1..Len(s) : IsDigit(s[i])

\* int() of a string of digits
RECURSIVE NumberOf(_)
NumberOf(s) ==
  IF s = << >> THEN 0
  ELSE (10 * NumberOf(SubSeq(s, 1, Len(s) - 1))) + DigitValue(s[Len(s)])

\* The code point of a character of a date key: "-" comes before the digits.
Ord(ch) == IF ch = "-" THEN 45 ELSE 48 + DigitValue(ch)

\* a < b on str: the first differing character decides, a proper prefix is
\* smaller.
StrLess(a, b) ==
  \E i \in 1..Len(b) :
    /\ \A j \in 1..(i - 1) : j <= Len(a) /\ a[j] = b[j]
    /\ i - 1 <= Len(a)
    /\ (i > Len(a) \/ Ord(a[i]) < Ord(b[i]))

IsLeapYear(y) == (y % 4 = 0 /\ y % 100 # 0) \/ y % 400 = 0

DaysInMonth(y, m) ==
  IF m = 2 THEN (IF IsLeapYear(y) THEN 29 ELSE 28)
  ELSE IF m \in { 4, 6, 9, 11 } THEN 30
  ELSE 31

NotADate == [ ok |-> FALSE, ymd |-> << 0, 0, 0 >> ]

\* datetime.strptime(s, "%Y-%m-%d") on a string of digits, letters and "-":
\* %Y takes exactly four digits, %m and %d one or two digits (1..12, 1..31),
\* nothing may be left over, and datetime() rejects the year 0 and a day the
\* month does not have.  ok is FALSE where the call raises ValueError.
strptime(s) ==
  LET dashes == { i \in 1..Len(s) : s[i] = "-" }
  IN  IF Cardinality(dashes) # 2 THEN NotADate
      ELSE
        LET i == CHOOSE i \in dashes : \A j \in dashes : i <= j
            j == CHOOSE j \in dashes : \A i2 \in dashes : i2 <= j
            Y == SubSeq(s, 1, i - 1)
            M == SubSeq(s, i + 1, j - 1)
            D == SubSeq(s, j + 1, Len(s))
        IN  IF /\ Len(Y) = 4 /\ AllDigits(Y)
               /\ Len(M) \in 1..2 /\ AllDigits(M)
               /\ Len(D) \in 1..2 /\ AllDigits(D)
               /\ NumberOf(Y) >= 1
               /\ NumberOf(M) \in 1..12
               /\ NumberOf(D) \in 1..DaysInMonth(NumberOf(Y), NumberOf(M))
            THEN [ ok |-> TRUE, ymd |-> << NumberOf(Y), NumberOf(M), NumberOf(D) >> ]
            ELSE NotADate

TwoDigits(n) == << DigitChars[(n \div 10) + 1], DigitChars[(n % 10) + 1] >>

\* The decimal digits of n >= 0, at least width of them.
RECURSIVE Decimal(_, _)
Decimal(n, width) ==
  IF n < 10 /\ width <= 1 THEN << DigitChars[n + 1] >>
  ELSE Decimal(n \div 10, width - 1) \o << DigitChars[(n % 10) + 1] >>

\* target_date.strftime("%Y-%m-%d").  %m and %d are two digits; %Y is the
\* year as the C library prints it: zero-padded to four digits on some
\* platforms (padded), without padding on others (glibc), which differ for
\* the years below 1000.
strftime(ymd, padded) ==
  Decimal(ymd[1], IF padded THEN 4 ELSE 1)
    \o << "-" >> \o TwoDigits(ymd[2]) \o << "-" >> \o TwoDigits(ymd[3])

\* The calendar date of a day number: day 0 is 0999-12-31, day d >= 1 is
\* the d-th of January 2024.
CalendarDate(d) == IF d = 0 THEN << 999, 12, 31 >> ELSE << 2024, 1, d >>

\* The day number of a calendar date of the window.
DayNumber(ymd) == CHOOSE d \in AllDates : CalendarDate(d) = ymd

InWindow(ymd) == \E d \in AllDates : CalendarDate(d) = ymd

\* historical_data.py line 65: date_str
DateStr(d, padded) == strftime(CalendarDate(d), padded)

\* historical_data.py line 192: datetime.strptime(date_str, "%Y-%m-%d")
\* succeeds; it raises ValueError on a key whose year is not four digits.
DateStrParsesOnce(d, padded) == strptime(DateStr(d, padded)).ok

\* The same, computed once for every day of the window and either padding.
DateStrParsesTable ==
  [ i \in 1..(LastDay + 1) |->
      << DateStrParsesOnce(i - 1, FALSE), DateStrParsesOnce(i - 1, TRUE) >> ] \o << >>

DateStrParses(d, padded) == DateStrParsesTable[d + 1][IF padded THEN 2 ELSE 1]

\* ------------------------------------------------- otx.py: classification

TAG_TO_ATTACK_TYPE ==
  << << <<"d","d","o","s">>, "ddos" >>,
     << <<"d","o","s">>, "ddos" >>,
     << <<"b","o","t","n","e","t">>, "bot" >>,
     << <<"b","o","t">>, "bot" >>,
     << <<"m","a","l","w","a","r","e">>, "bot" >>,
     << <<"b","r","u","t","e","f","o","r","c","e">>, "bruteforce" >>,
     << <<"b","r","u","t","e","-","f","o","r","c","e">>, "bruteforce" >>,
     << <<"s","s","h">>, "bruteforce" >>,
     << <<"f","t","p">>, "bruteforce" >>,
     << <<"r","d","p">>, "bruteforce" >>,
     << <<"s","c","a","n">>, "ddos" >>,
     << <<"e","x","p","l","o","i","t">>, "bot" >>
  >>

InTagTable(tag) == \E i \in 1..Len(TAG_TO_ATTACK_TYPE) : TAG_TO_ATTACK_TYPE[i][1] = tag

TagTableValue(tag) ==
  TAG_TO_ATTACK_TYPE[CHOOSE i \in 1..Len(TAG_TO_ATTACK_TYPE) : TAG_TO_ATTACK_TYPE[i][1] = tag][2]

\* The three substring tests of the second loop, in the order of the source.
IsDdosPattern(tag) ==
  \/ Contains(<<"d","d","o","s">>, tag)
  \/ Contains(<<"f","l","o","o","d">>, tag)
  \/ Contains(<<"a","m","p","l","i","f","i","c","a","t","i","o","n">>, tag)

IsBrutePattern(tag) ==
  \/ Contains(<<"b","r","u","t","e">>, tag)
  \/ Contains(<<"p","a","s","s","w","o","r","d">>, tag)
  \/ Contains(<<"l","o","g","i","n">>, tag)

IsBotPattern(tag) ==
  \/ Contains(<<"b","o","t">>, tag)
  \/ Contains(<<"t","r","o","j","a","n">>, tag)
  \/ Contains(<<"r","a","t">>, tag)

HasPattern(tag) == IsDdosPattern(tag) \/ IsBrutePattern(tag) \/ IsBotPattern(tag)

PatternType(tag) ==
  IF IsDdosPattern(tag) THEN "ddos"
  ELSE IF IsBrutePattern(tag) THEN "bruteforce"
  ELSE "bot"

\* A variant with the two loops merged into one pass over the tags.
map_tags_single_pass(tags) ==
  LET tags_lower == [i \in 1..Len(tags) |-> Lower(tags[i])]
      hits == {i \in 1..Len(tags) : InTagTable(tags_lower[i]) \/ HasPattern(tags_lower[i])}
      first == CHOOSE i \in hits : \A j \in hits : i <= j
  IN  IF hits = {} THEN "ddos"
      ELSE IF InTagTable(tags_lower[first]) THEN TagTableValue(tags_lower[first])
      ELSE PatternType(tags_lower[first])

map_tags_to_attack_type(tags) ==
  LET tags_lower == [i \in 1..Len(tags) |-> Lower(tags[i])]
      exact == {i \in 1..Len(tags) : InTagTable(tags_lower[i])}
      fuzzy == {i \in 1..Len(tags) : HasPattern(tags_lower[i])}
      First(S) == CHOOSE i \in S : \A j \in S : i <= j
  IN  IF Len(tags) = 0 THEN "ddos"
      ELSE IF exact # {} THEN TagTableValue(tags_lower[First(exact)])
      ELSE IF fuzzy # {} THEN PatternType(tags_lower[First(fuzzy)])
      ELSE "ddos"

Min(a, b) == IF a <= b THEN a ELSE b
Max(a, b) == IF a >= b THEN a ELSE b

\* tlp_scores.get(tlp, 2)
TlpScore(tlp) ==
  CASE tlp = <<"r","e","d">> -> 5
    [] tlp = <<"a","m","b","e","r">> -> 4
    [] tlp = <<"g","r","e","e","n">> -> 3
    [] tlp = <<"w","h","i","t","e">> -> 2
    [] OTHER -> 2

CRITICAL_TAGS ==
  { <<"a","p","t">>, <<"c","r","i","t","i","c","a","l">>, <<"h","i","g","h">>,
    <<"s","e","v","e","r","e">>, <<"t","a","r","g","e","t","e","d">> }

\* A variant that rounds the half up instead of dropping it.
severity_rounded_up(pulse) ==
  LET indicator_count == Len(pulse.indicators)
      base == 2 * TlpScore(Lower(pulse.tlp))
      counted == IF indicator_count > 100 THEN Min(10, base + 2)
                 ELSE IF indicator_count > 50 THEN Min(10, base + 1)
                 ELSE base
      tagged == IF \E i \in 1..Len(pulse.tags) : Lower(pulse.tags[i]) \in CRITICAL_TAGS
                THEN Min(10, counted + 2)
                ELSE counted
  IN  Max(1, Min(5, (tagged + 1) \div 2))

\* base_severity is kept in halves: the code adds 0.5 for 50 < count <= 100,
\* and int() drops the half at the end.
calculate_severity_from_pulse(pulse) ==
  LET indicator_count == Len(pulse.indicators)
      base == 2 * TlpScore(Lower(pulse.tlp))
      counted == IF indicator_count > 100 THEN Min(10, base + 2)
                 ELSE IF indicator_count > 50 THEN Min(10, base + 1)
                 ELSE base
      tagged == IF \E i \in 1..Len(pulse.tags) : Lower(pulse.tags[i]) \in CRITICAL_TAGS
                THEN Min(10, counted + 2)
                ELSE counted
  IN  Max(1, Min(5, tagged \div 2))

\* tlp_confidence.get(tlp, 0.6), in hundredths
TlpConfidence(tlp) ==
  CASE tlp = <<"r","e","d">> -> 90
    [] tlp = <<"a","m","b","e","r">> -> 80
    [] tlp = <<"g","r","e","e","n">> -> 70
    [] tlp = <<"w","h","i","t","e">> -> 60
    [] OTHER -> 60

\* In hundredths; round(x, 2) leaves a whole number of hundredths as it is.
extract_confidence_from_pulse(pulse) ==
  LET indicator_count == Len(pulse.indicators)
      base == TlpConfidence(Lower(pulse.tlp))
  IN  IF indicator_count > 50 THEN Min(100, base + 10)
      ELSE IF indicator_count < 5 THEN Max(50, base - 10)
      ELSE base

\* ------------------------------------------- abuseipdb.py: float arithmetic

\* calculate_severity computes in Python floats (IEEE 754 binary64, round to
\* nearest, ties to even).  A non-negative double x is held exactly as its
\* digits <<w, l1, l2, l3>> in base 2^21:
\*     x = w + l1 / 2^21 + l2 / 2^42 + l3 / 2^63.
\* A double of binary exponent e has its last significand bit at 2^(e - 52),
\* so the digits hold every double with -10 <= e <= 9 exactly; the quotients,
\* the literals and the sums of calculate_severity on the checked inputs lie
\* in that range or are zero.
Limb == 2^21

Digits(w, l1, l2, l3) == << w, l1, l2, l3 >>

\* The number of bits of m: 0 for 0, k for 2^(k-1) <= m < 2^k.
BitLength(m) == CHOOSE k \in 0..30 : m < 2^k /\ (k = 0 \/ 2^(k - 1) <= m)

IsZero(x) == x = Digits(0, 0, 0, 0)

\* floor(log2(x)) of a non-zero x >= 2^-21
Exponent(x) == IF x[1] > 0 THEN BitLength(x[1]) - 1 ELSE BitLength(x[2]) - 22

\* The carries of digits that have grown past 2^21 - 1.
Carry(x) ==
  LET l3 == x[4] % Limb
      c3 == x[4] \div Limb
      l2 == (x[3] + c3) % Limb
      c2 == (x[3] + c3) \div Limb
      l1 == (x[2] + c2) % Limb
      c1 == (x[2] + c2) \div Limb
  IN  Digits(x[1] + c1, l1, l2, l3)

\* The double nearest to the real number x + (a rest below 2^-63 that is
\* non-zero iff inexact): the bits below the 53rd significand bit are dropped
\* and the last place is raised when they are above the half, or at the half
\* with the last place odd.
RoundToDouble(x, inexact) ==
  IF IsZero(x) THEN x
  ELSE LET ulp == 2^(Exponent(x) + 11)
           kept == x[4] \div ulp
           rest == x[4] % ulp
           half == ulp \div 2
           up == \/ rest > half
                 \/ rest = half /\ (inexact \/ kept % 2 = 1)
       IN  Carry(Digits(x[1], x[2], x[3], (kept + (IF up THEN 1 ELSE 0)) * ulp))

\* n / d of two small non-negative integers (d <= 1023) as the division of
\* two floats delivers it: the long division to 63 fractional bits, rounded.
\* A decimal literal such as 0.9 is the same double as 9 / 10.
FloatDiv(n, d) ==
  LET w  == n \div d
      r0 == n % d
      l1 == (r0 * Limb) \div d
      r1 == (r0 * Limb) % d
      l2 == (r1 * Limb) \div d
      r2 == (r1 * Limb) % d
      l3 == (r2 * Limb) \div d
      r3 == (r2 * Limb) % d
  IN  RoundToDouble(Digits(w, l1, l2, l3), r3 # 0)

\* x + y of two doubles: the exact sum, rounded.
FloatAdd(x, y) ==
  RoundToDouble(Carry(Digits(x[1] + y[1], x[2] + y[2], x[3] + y[3], x[4] + y[4])), FALSE)

\* x >= y
FloatGE(x, y) ==
  \/ x = y
  \/ \E i \in 1..4 : x[i] > y[i] /\ \A j \in 1..(i - 1) : x[j] = y[j]

\* min(x, y)
FloatMin(x, y) == IF FloatGE(x, y) THEN y ELSE x

\* ------------------------------------------------- abuseipdb.py: severity

calculate_severity(abuse_confidence_score, total_reports) ==
  LET base_score == FloatDiv(abuse_confidence_score, 100)
      report_bonus == FloatMin(FloatDiv(total_reports, 100), FloatDiv(5, 10))
      combined == FloatAdd(base_score, report_bonus)
  IN  IF FloatGE(combined, FloatDiv(12, 10)) THEN 5
      ELSE IF FloatGE(combined, FloatDiv(9, 10)) THEN 4
      ELSE IF FloatGE(combined, FloatDiv(6, 10)) THEN 3
      ELSE IF FloatGE(combined, FloatDiv(3, 10)) THEN 2
      ELSE 1

\* ------------------------------------------------------- provider responses

\* The pulses a provider serves.  A pulse id names one pulse, so the content
\* is a function of the id: ids take the three shapes in turn, one without IP
\* indicators, one with two IP indicators among three, one with more IP
\* indicators than the per-pulse cap.  created is the "created" field:
\* absent/empty, unparseable, or an ISO time (with the time it parses to).
PulseShapes ==
  << [indicators |-> << "IPv4", "URL", "IPv6" >>,
      tlp |-> <<"a","m","b","e","r">>, tags |-> << <<"B","o","t","n","e","t">> >>,
      created |-> [text |-> "iso", millis |-> 1700000000]],
     [indicators |-> << "domain" >>,
      tlp |-> <<"w","h","i","t","e">>, tags |-> << >>,
      created |-> [text |-> "", millis |-> 0]],
     [indicators |-> << "IPv4", "IPv4", "domain", "IPv6", "IPv4", "IPv4", "IPv4" >>,
      tlp |-> <<"R","E","D">>, tags |-> << <<"A","P","T">>, <<"s","s","h","-","l","o","g","i","n">> >>,
      created |-> [text |-> "garbage", millis |-> 0]] >>

PulseOfId(i) ==
  LET sh == PulseShapes[((i - 1) % Len(PulseShapes)) + 1]
  IN  [id |-> i, indicators |-> sh.indicators, tlp |-> sh.tlp, tags |-> sh.tags,
       created |-> sh.created]

Pulses == { PulseOfId(i) : i \in PulseIds }

SeqsUpTo(S, n) == UNION { [1..k -> S] : k \in 0..n }

\* What the HTTP GET of an adapter can end in.
FailureKinds == { "http_status", "transport", "timeout", "malformed" }

PulseOutcomes ==
  { [kind |-> "ok", results |-> r] : r \in SeqsUpTo(Pulses, MaxResp) }
    \cup { [kind |-> k, results |-> << >>] : k \in FailureKinds }

BlacklistData ==
  { << >>,
    << [ipAddress |-> "198.51.100.7", countryCode |-> "CN",
        abuseConfidenceScore |-> 100, totalReports |-> 100] >> }

BlacklistOutcomes ==
  { [kind |-> "ok", results |-> r] : r \in BlacklistData }
    \cup { [kind |-> k, results |-> << >>] : k \in FailureKinds }

\* The exception a failed GET raises: raise_for_status, a transport error and
\* a timeout raise subclasses of httpx.HTTPError; a body that is not the
\* expected JSON raises a ValueError/AttributeError/TypeError.
ExceptionOf(kind) ==
  CASE kind \in { "http_status", "transport", "timeout" } -> "httpx.HTTPError"
    [] kind = "malformed" -> "Exception"
    [] OTHER -> "none"

\* A variant with the second except clause left out.
CaughtHTTPErrorOnly(exc) == exc = "httpx.HTTPError"

\* except httpx.HTTPError ... except Exception ...
Caught(exc) == exc \in { "httpx.HTTPError", "Exception" }

\* What the try block of an adapter call hands back: the list, or [] from an
\* except clause, or the exception when no clause catches it.
AdapterReturn(outcome) ==
  IF outcome.kind = "ok" THEN [raised |-> FALSE, value |-> outcome.results]
  ELSE IF Caught(ExceptionOf(outcome.kind)) THEN [raised |-> FALSE, value |-> << >>]
  ELSE [raised |-> TRUE, value |-> << >>]

\* ------------------------------------------- historical_data.py: the events

\* int(target_date.timestamp() * 1000), kept in seconds (TLC's integers are
\* 32 bits wide): midnight of day d.
DateMillis(d) == d * SecondsPerDay

\* Lines 113-120: the pulse's created time, else the target date.
PulseTimestamp(pulse, d) ==
  IF pulse.created.text = "" THEN DateMillis(d)
  ELSE IF pulse.created.text = "iso" THEN pulse.created.millis
  ELSE DateMillis(d)

\* A variant that keeps the indicators of every type.
IndicatorsOfAnyType(pulse) == pulse.indicators

\* [ind for ind in indicators if ind.get("type") in ["IPv4", "IPv6"]]
IpIndicators(pulse) ==
  SelectSeq(pulse.indicators, LAMBDA ty : ty \in { "IPv4", "IPv6" })

\* ip_indicators[:5]
EventsOfPulse(pulse) == Min(MaxEventsPerPulse, Len(IpIndicators(pulse)))

\* Lines 107-110: the classification of a pulse.
Classify(pulse) ==
  [ attack_type |-> map_tags_to_attack_type(pulse.tags),
    severity |-> calculate_severity_from_pulse(pulse),
    confidence |-> extract_confidence_from_pulse(pulse) ]

\* The same, computed once for every pulse the provider serves.
ClassifyTable == [ i \in PulseIds |-> Classify(PulseOfId(i)) ] \o << >>

\* Lines 106-120: what the events of one pulse share.
PulseMeta(pulse, d) ==
  LET c == ClassifyTable[pulse.id]
  IN  [ attack_type |-> c.attack_type,
        severity |-> c.severity,
        confidence |-> c.confidence,
        pulse_timestamp |-> PulseTimestamp(pulse, d) ]

\* Lines 126-148: the n-th event (from 0) a call builds, from a pulse with
\* metadata meta.
PulseEvent(t, n, pulse_id, meta, sd) ==
  LET pair == CountryPair(Rand(sd, (2 * n) + 1), Rand(sd, (2 * n) + 2))
  IN  [ id |-> << t, n >>,
        pulse |-> pulse_id,
        source |-> pair.source,
        target |-> pair.target,
        type |-> meta.attack_type,
        severity |-> meta.severity,
        confidence |-> meta.confidence,
        timestamp |-> meta.pulse_timestamp ]

\* A variant in which the membership test of line 90 never succeeds.
AlreadyProcessedNever(pulse_id, processed) == FALSE

\* A variant in which line 152 adds nothing.
MarkProcessedDropped(processed, pulse_id) == processed

\* Line 90: pulse_id in self._processed_pulse_ids
AlreadyProcessed(pulse_id, processed) == pulse_id \in processed

\* A variant in which the set is rebound to the one id.
MarkProcessedOnly(processed, pulse_id) == { pulse_id }

\* Line 152: self._processed_pulse_ids.add(pulse_id)
MarkProcessed(processed, pulse_id) == processed \cup { pulse_id }

\* Lines 86-152: the loop over the pulses of a response, from pulse i on.
\* acc is [events, processed, emitted]: the list built so far, the consumed
\* ids, and the ids this call has built events for.
RECURSIVE TransformFrom(_, _, _, _, _, _)
TransformFrom(ps, i, acc, t, d, sd) ==
  IF i > Len(ps) THEN acc
  ELSE
    LET pulse == ps[i]
        k == EventsOfPulse(pulse)
        base == Len(acc.events)
    IN  IF AlreadyProcessed(pulse.id, acc.processed)
          THEN TransformFrom(ps, i + 1, acc, t, d, sd)
        ELSE IF k = 0
          THEN TransformFrom(ps, i + 1, acc, t, d, sd)
        ELSE
          LET meta == PulseMeta(pulse, d)
              built == [ j \in 1..k |-> PulseEvent(t, base + j - 1, pulse.id, meta, sd) ]
          IN  TransformFrom(ps, i + 1,
                [ events |-> acc.events \o built,
                  processed |-> MarkProcessed(acc.processed, pulse.id),
                  emitted |-> acc.emitted \cup { pulse.id } ],
                t, d, sd)

Transform(ps, processed, t, d, sd) ==
  TransformFrom(ps, 1, [events |-> << >>, processed |-> processed, emitted |-> {}],
                t, d, sd)

\* A variant drawing the count from 0 up.
SyntheticCountFromZero(sd) == RandInt(0, SyntheticMax, Rand(sd, 0))

\* A variant whose range starts one below.
SyntheticCountOneBelow(sd) == RandInt(SyntheticMin - 1, SyntheticMax, Rand(sd, 0))

\* random.randint(30, 80)
SyntheticCount(sd) == RandInt(SyntheticMin, SyntheticMax, Rand(sd, 0))

\* Lines 171-193: the n-th synthetic event (from 0).
SyntheticEvent(t, n, d, sd) ==
  LET pair == CountryPair(Rand(sd, (5 * n) + 1), Rand(sd, (5 * n) + 2))
  IN  [ id |-> << t, n >>,
        pulse |-> 0,
        source |-> pair.source,
        target |-> pair.target,
        type |-> Choice(ATTACK_TYPES, Rand(sd, (5 * n) + 3)),
        severity |-> RandInt(1, 5, Rand(sd, (5 * n) + 4)),
        confidence |-> RandInt(50, 100, Rand(sd, (5 * n) + 5)),
        timestamp |-> DateMillis(d) ]

\* Lines 167-194: the list _generate_synthetic_data builds.
SyntheticEvents(t, d, sd) ==
  [ n \in 1..SyntheticCount(sd) |-> SyntheticEvent(t, n - 1, d, sd) ] \o << >>

\* The same lists, computed once for every task, date and seed.
SyntheticIndex(t, d, s) ==
  ((((t - 1) * (LastDay + 1)) + d) * (MaxSeedIx + 1)) + (s \div 50) + 1

SyntheticTable ==
  [ i \in 1..(MaxTasks * (LastDay + 1) * (MaxSeedIx + 1)) |->
      LET t == CHOOSE t \in Tasks : \E d \in AllDays, s \in Seeds : SyntheticIndex(t, d, s) = i
          d == CHOOSE d \in AllDays : \E s \in Seeds : SyntheticIndex(t, d, s) = i
          s == CHOOSE s \in Seeds : SyntheticIndex(t, d, s) = i
      IN  SyntheticEvents(t, d, s) ] \o << >>

\* await self._generate_synthetic_data(date_str), up to its async with
generate_synthetic_data(t, d, s) == SyntheticTable[SyntheticIndex(t, d, s)]

\* Variants of the assignment: extending the list already stored, keeping an
\* entry that exists (setdefault), rebinding the whole dict to one entry.
StoreExtend(store, d, evs) ==
  [ k \in (DOMAIN store) \cup { d } |->
      IF k # d THEN store[k]
      ELSE IF d \in DOMAIN store THEN store[d] \o evs ELSE evs ]

StoreSetDefault(store, d, evs) ==
  [ k \in (DOMAIN store) \cup { d } |-> IF k \in DOMAIN store THEN store[k] ELSE evs ]

StoreRebind(store, d, evs) == [ k \in { d } |-> evs ]

\* A variant that publishes the first event of a list while the rest is built.
StorePublishEarly(store, d, evs) ==
  [ k \in (DOMAIN store) \cup { d } |-> IF k = d THEN SubSeq(evs, 1, 1) ELSE store[k] ]

\* self.events_by_date[date_str] = events
StoreAssign(store, d, evs) ==
  [ k \in (DOMAIN store) \cup { d } |-> IF k = d THEN evs ELSE store[k] ]

\* Lines 84-158: while a call builds its list the store is not touched.
StoreWhileBuilding(store, d, evs) == store

\* --------------------------------------------------------- otx.py: the cache

\* Lines 61-65: every pulse of the response is cached under its id, stamped
\* with the time of the call.
\* self._pulse_cache[pulse_id] = pulse; self._cache_timestamps[pulse_id] = ...
CacheAssign(dict, pulse_id, value) ==
  [ k \in (DOMAIN dict) \cup { pulse_id } |-> IF k = pulse_id THEN value ELSE dict[k] ]

RECURSIVE CachePulsesFrom(_, _, _, _)
CachePulsesFrom(ps, i, cache, at) ==
  IF i > Len(ps) THEN cache
  ELSE CachePulsesFrom(ps, i + 1,
         [ pulse |-> CacheAssign(cache.pulse, ps[i].id, ps[i]),
           stamp |-> CacheAssign(cache.stamp, ps[i].id, at) ],
         at)

\* timedelta.seconds: the seconds field of a normalised timedelta
\* (days, seconds, microseconds), 0 <= seconds < 86400.
TimedeltaSeconds(delta) == delta % SecondsPerDay

\* OTXClient._is_cache_valid
is_cache_valid(stamps, pulse_id, at) ==
  IF pulse_id \notin DOMAIN stamps THEN FALSE
  ELSE TimedeltaSeconds(at - stamps[pulse_id]) < OTX_CACHE_TTL

\* --------------------------------------------------------- the state machine

pureVars == << call, reply >>
bootVars == << days_ago, serving >>
routeVars == << http, year_padded, days_ago, serving >>
NoRequest == [ route |-> "none", raw |-> << >>, status |-> 0, body |-> << >> ]
NoCall == [ fn |-> "none" ]
NoReturn == [ returned |-> FALSE ]

cacheVars == << pulse_cache, cache_timestamps >>
clockVars == << now, ticks >>

EmptyMap == [ k \in {} |-> 0 ]
\* kind: how the GET of the call ended ("no_key": none was issued).
NoResult ==
  [ kind |-> "none", raised |-> FALSE, value |-> << >>, from_cache |-> FALSE, age |-> 0 ]

Init ==
  /\ api_key \in BOOLEAN
  /\ abuse_key \in BOOLEAN
  /\ events_by_date = EmptyMap
  /\ processed_pulse_ids = {}
  /\ lock = 0
  /\ pulse_cache = EmptyMap
  /\ cache_timestamps = EmptyMap
  /\ now = 0
  /\ ticks = 0
  /\ pc = [ t \in Tasks |-> "idle" ]
  /\ op = [ t \in Tasks |-> "none" ]
  /\ date = [ t \in Tasks |-> 0 ]
  /\ target = [ t \in Tasks |-> 0 ]
  /\ seed = [ t \in Tasks |-> 0 ]
  /\ pulses = [ t \in Tasks |-> << >> ]
  /\ events = [ t \in Tasks |-> << >> ]
  /\ requests = [ t \in Tasks |-> 0 ]
  /\ result = [ t \in Tasks |-> NoResult ]
  /\ emitted = [ p \in PulseIds |-> {} ]
  /\ inflight = [ t \in Tasks |-> {} ]
  /\ last_writer = [ d \in AllDays |-> 0 ]
  /\ call = NoCall
  /\ reply = NoReturn
  /\ http = [ t \in Tasks |-> NoRequest ]
  /\ year_padded \in BOOLEAN
  /\ days_ago = 0
  /\ serving = TRUE

InFlight(t) == op[t] = "fetch" /\ pc[t] \in { "request", "lock", "write" }

\* ------------------------------------- HistoricalDataStore.fetch_and_aggregate

\* A variant that repeats the GET.
IssueGetTwice(n) == n + 2

\* otx.py line 54: the one client.get of a get_pulses_subscribed call.
IssueGet(n) == n + 1

\* Lines 62-76 and otx.py 42-54: the call up to its first suspension.  With a
\* key the GET is issued and the coroutine waits for the response.  Without a
\* key get_pulses_subscribed returns [] at once, so the call goes on through
\* lines 78-81 and 167-194 to the async with of line 196.  Line 192 parses
\* date_str again: where that raises, _generate_synthetic_data and with it
\* fetch_and_aggregate end with the ValueError (pc "raised").
FetchBegin(t, d, s) ==
  /\ pc[t] = "idle"
  /\ op' = [ op EXCEPT ![t] = "fetch" ]
  /\ date' = [ date EXCEPT ![t] = d ]
  /\ seed' = [ seed EXCEPT ![t] = s ]
  /\ inflight' = [ inflight EXCEPT ![t] = { u \in Tasks : InFlight(u) } ]
  /\ IF api_key
       THEN /\ requests' = [ requests EXCEPT ![t] = IssueGet(@) ]
            /\ pc' = [ pc EXCEPT ![t] = "request" ]
            /\ UNCHANGED << events, events_by_date >>
       ELSE /\ IF DateStrParses(d, year_padded)
                 THEN /\ events' = [ events EXCEPT ![t] = generate_synthetic_data(t, d, s) ]
                      /\ pc' = [ pc EXCEPT ![t] = "lock" ]
                 ELSE /\ pc' = [ pc EXCEPT ![t] = "raised" ]
                      /\ UNCHANGED events
            /\ events_by_date' = StoreWhileBuilding(events_by_date, d, events'[t])
            /\ UNCHANGED requests
  /\ result' = [ result EXCEPT ![t].kind = IF api_key THEN "none" ELSE "no_key" ]
  /\ UNCHANGED << api_key, abuse_key, processed_pulse_ids, lock, cacheVars,
                  clockVars, target, pulses, emitted, last_writer >>

\* fetch_and_aggregate called on its own.
FetchStart(t, d, s) ==
  /\ FetchBegin(t, d, s)
  /\ UNCHANGED pureVars
  /\ UNCHANGED routeVars

\* otx.py 55-73 and lines 78-82, 167-194: the response is a failure or holds
\* no pulse; get_pulses_subscribed returns [] and the call builds the
\* synthetic list.  (An exception no except clause catches would leave
\* fetch_and_aggregate with the exception: pc "raised".)
FetchRespondEmpty(t, outcome) ==
  /\ pc[t] = "request"
  /\ op[t] = "fetch"
  /\ LET ret == AdapterReturn(outcome)
     IN  /\ ret.raised \/ ret.value = << >>
         /\ IF ret.raised \/ ~DateStrParses(date[t], year_padded)
              THEN /\ pc' = [ pc EXCEPT ![t] = "raised" ]
                   /\ UNCHANGED << events, events_by_date >>
              ELSE /\ events' = [ events EXCEPT ![t] =
                                    generate_synthetic_data(t, date[t], seed[t]) ]
                   /\ events_by_date' =
                        StoreWhileBuilding(events_by_date, date[t], events'[t])
                   /\ pc' = [ pc EXCEPT ![t] = "lock" ]
         /\ result' = [ result EXCEPT ![t].kind = outcome.kind, ![t].raised = ret.raised ]
  /\ UNCHANGED << api_key, abuse_key, processed_pulse_ids, lock, cacheVars,
                  clockVars, op, date, target, seed, pulses, requests,
                  emitted, inflight, last_writer >>
  /\ UNCHANGED pureVars
  /\ UNCHANGED routeVars

\* otx.py 55-67 and lines 84-158: the response holds pulses; they are cached,
\* turned into events, and the call reaches the async with of line 160 (or,
\* with no event built, of line 196 with the synthetic list).
FetchRespondPulses(t, outcome) ==
  /\ pc[t] = "request"
  /\ op[t] = "fetch"
  /\ LET ret == AdapterReturn(outcome)
         cache == CachePulsesFrom(ret.value, 1,
                    [ pulse |-> pulse_cache, stamp |-> cache_timestamps ], now)
         acc == Transform(ret.value, processed_pulse_ids, t, date[t], seed[t])
     IN  /\ ~ret.raised
         /\ ret.value # << >>
         /\ pulse_cache' = cache.pulse
         /\ cache_timestamps' = cache.stamp
         /\ pulses' = [ pulses EXCEPT ![t] = ret.value ]
         /\ processed_pulse_ids' = acc.processed
         /\ emitted' = [ p \in PulseIds |->
                           IF p \in acc.emitted THEN emitted[p] \cup { t } ELSE emitted[p] ]
         /\ IF acc.events = << >> /\ ~DateStrParses(date[t], year_padded)
              THEN /\ pc' = [ pc EXCEPT ![t] = "raised" ]
                   /\ UNCHANGED events
              ELSE /\ events' = [ events EXCEPT ![t] =
                                    IF acc.events = << >>
                                    THEN generate_synthetic_data(t, date[t], seed[t])
                                    ELSE acc.events ]
                   /\ pc' = [ pc EXCEPT ![t] = "lock" ]
         /\ events_by_date' = StoreWhileBuilding(events_by_date, date[t], events'[t])
         /\ result' = [ result EXCEPT ![t].kind = outcome.kind ]
  /\ UNCHANGED << api_key, abuse_key, lock, clockVars, op, date, target, seed,
                  requests, inflight, last_writer >>
  /\ UNCHANGED pureVars
  /\ UNCHANGED routeVars

\* Lines 160 and 196: async with self._lock, entered when the lock is free.
AcquireLock(t) ==
  /\ pc[t] = "lock"
  /\ lock = 0
  /\ lock' = t
  /\ pc' = [ pc EXCEPT ![t] = "write" ]
  /\ UNCHANGED << api_key, abuse_key, events_by_date, processed_pulse_ids,
                  cacheVars, clockVars, op, date, target, seed, pulses, events,
                  requests, result, emitted, inflight, last_writer >>
  /\ UNCHANGED pureVars
  /\ UNCHANGED routeVars

\* A variant in which leaving the async with block keeps the lock.
ReleaseKept(holder) == holder

\* Lines 160-161 and 196-197: leaving the async with block releases the lock.
Release(holder) == 0

\* Lines 161-163 and 197: the entry is assigned, the lock released, the call
\* returns (and its locals are gone).
WriteEntry(t) ==
  /\ pc[t] = "write"
  /\ lock = t
  /\ events_by_date' = StoreAssign(events_by_date, date[t], events[t])
  /\ lock' = Release(lock)
  /\ last_writer' = [ last_writer EXCEPT ![date[t]] = t ]
  /\ pc' = [ pc EXCEPT ![t] = "done" ]
  /\ pulses' = [ pulses EXCEPT ![t] = << >> ]
  /\ events' = [ events EXCEPT ![t] = << >> ]
  /\ result' = [ result EXCEPT ![t] = NoResult ]
  /\ UNCHANGED << api_key, abuse_key, processed_pulse_ids, cacheVars, clockVars,
                  op, date, target, seed, requests, emitted, inflight >>
  /\ UNCHANGED pureVars
  /\ UNCHANGED routeVars

\* ---------------------------------------------- AbuseIPDBClient.get_blacklist

\* abuseipdb.py 33-45: no key, [] at once; else the GET is issued.
BlacklistStart(t) ==
  /\ pc[t] = "idle"
  /\ op' = [ op EXCEPT ![t] = "blacklist" ]
  /\ IF abuse_key
       THEN /\ requests' = [ requests EXCEPT ![t] = @ + 1 ]
            /\ pc' = [ pc EXCEPT ![t] = "request" ]
       ELSE /\ pc' = [ pc EXCEPT ![t] = "returned" ]
            /\ UNCHANGED requests
  /\ result' = [ result EXCEPT ![t].kind = IF pc'[t] = "returned" THEN "no_key" ELSE "none" ]
  /\ UNCHANGED << api_key, abuse_key, events_by_date, processed_pulse_ids, lock,
                  cacheVars, clockVars, date, target, seed, pulses, events,
                  emitted, inflight, last_writer >>
  /\ UNCHANGED pureVars
  /\ UNCHANGED routeVars

\* abuseipdb.py 46-54: the response, or [] from an except clause.
BlacklistRespond(t, outcome) ==
  /\ pc[t] = "request"
  /\ op[t] = "blacklist"
  /\ LET ret == AdapterReturn(outcome)
     IN  /\ result' = [ result EXCEPT ![t] =
                          [ kind |-> outcome.kind, raised |-> ret.raised,
                            value |-> ret.value, from_cache |-> FALSE, age |-> 0 ] ]
         /\ pc' = [ pc EXCEPT ![t] = IF ret.raised THEN "raised" ELSE "returned" ]
  /\ UNCHANGED << api_key, abuse_key, events_by_date, processed_pulse_ids, lock,
                  cacheVars, clockVars, op, date, target, seed, pulses, events,
                  requests, emitted, inflight, last_writer >>
  /\ UNCHANGED pureVars
  /\ UNCHANGED routeVars

\* -------------------------------------------------- OTXClient, called directly

\* How far datetime.now() moves between two steps: half a TTL, a TTL, a day.
TickSeconds == { OTX_CACHE_TTL \div 2, OTX_CACHE_TTL, SecondsPerDay }

Tick(dt) ==
  /\ ticks < MaxTicks
  /\ ticks' = ticks + 1
  /\ now' = now + dt
  /\ UNCHANGED << api_key, abuse_key, events_by_date, processed_pulse_ids, lock,
                  cacheVars, pc, op, date, target, seed, pulses, events,
                  requests, result, emitted, inflight, last_writer >>
  /\ UNCHANGED pureVars
  /\ UNCHANGED routeVars

\* otx.py 42-54: get_pulses_subscribed up to its GET.
SubscribedStart(t) ==
  /\ pc[t] = "idle"
  /\ op' = [ op EXCEPT ![t] = "subscribed" ]
  /\ IF api_key
       THEN /\ requests' = [ requests EXCEPT ![t] = IssueGet(@) ]
            /\ pc' = [ pc EXCEPT ![t] = "request" ]
       ELSE /\ pc' = [ pc EXCEPT ![t] = "returned" ]
            /\ UNCHANGED requests
  /\ result' = [ result EXCEPT ![t].kind = IF pc'[t] = "returned" THEN "no_key" ELSE "none" ]
  /\ UNCHANGED << api_key, abuse_key, events_by_date, processed_pulse_ids, lock,
                  cacheVars, clockVars, date, target, seed, pulses, events,
                  emitted, inflight, last_writer >>
  /\ UNCHANGED pureVars
  /\ UNCHANGED routeVars

\* otx.py 55-73: the response is cached and returned, or [] from an except
\* clause.
SubscribedRespond(t, outcome) ==
  /\ pc[t] = "request"
  /\ op[t] = "subscribed"
  /\ LET ret == AdapterReturn(outcome)
         cache == CachePulsesFrom(ret.value, 1,
                    [ pulse |-> pulse_cache, stamp |-> cache_timestamps ], now)
     IN  /\ pulse_cache' = cache.pulse
         /\ cache_timestamps' = cache.stamp
         /\ result' = [ result EXCEPT ![t] =
                          [ kind |-> outcome.kind, raised |-> ret.raised,
                            value |-> ret.value, from_cache |-> FALSE, age |-> 0 ] ]
         /\ pc' = [ pc EXCEPT ![t] = IF ret.raised THEN "raised" ELSE "returned" ]
  /\ UNCHANGED << api_key, abuse_key, events_by_date, processed_pulse_ids, lock,
                  clockVars, op, date, target, seed, pulses, events, requests,
                  emitted, inflight, last_writer >>
  /\ UNCHANGED pureVars
  /\ UNCHANGED routeVars

\* What the GET of get_pulse_by_id(p) can end in.
LookupOutcomes(p) ==
  { [kind |-> "ok", results |-> << PulseOfId(p) >>] }
    \cup { [kind |-> k, results |-> << >>] : k \in FailureKinds }

AllLookupOutcomes == UNION { LookupOutcomes(p) : p \in PulseIds }

\* otx.py 114-127: get_pulse_by_id up to its GET.  A pulse the cache holds
\* as valid is returned at once (age: how long ago it was stamped); without
\* a key the call returns None; else the GET is issued.  An Optional[Dict] is
\* a list of at most one pulse.
LookupStart(t, p) ==
  /\ pc[t] = "idle"
  /\ op' = [ op EXCEPT ![t] = "lookup" ]
  /\ target' = [ target EXCEPT ![t] = p ]
  /\ IF is_cache_valid(cache_timestamps, p, now)
       THEN /\ result' = [ result EXCEPT ![t] =
                             [ kind |-> "none", raised |-> FALSE,
                               value |-> IF p \in DOMAIN pulse_cache
                                         THEN << pulse_cache[p] >> ELSE << >>,
                               from_cache |-> TRUE,
                               age |-> now - cache_timestamps[p] ] ]
            /\ pc' = [ pc EXCEPT ![t] = "returned" ]
            /\ UNCHANGED requests
       ELSE IF ~api_key
       THEN /\ pc' = [ pc EXCEPT ![t] = "returned" ]
            /\ result' = [ result EXCEPT ![t].kind = "no_key" ]
            /\ UNCHANGED requests
       ELSE /\ requests' = [ requests EXCEPT ![t] = @ + 1 ]
            /\ pc' = [ pc EXCEPT ![t] = "request" ]
            /\ UNCHANGED result
  /\ UNCHANGED << api_key, abuse_key, events_by_date, processed_pulse_ids, lock,
                  cacheVars, clockVars, date, seed, pulses, events, emitted,
                  inflight, last_writer >>
  /\ UNCHANGED pureVars
  /\ UNCHANGED routeVars

\* otx.py 127-141: the pulse is cached and returned, or None from an except
\* clause.
LookupRespond(t, outcome) ==
  /\ pc[t] = "request"
  /\ op[t] = "lookup"
  /\ outcome \in LookupOutcomes(target[t])
  /\ LET ret == AdapterReturn(outcome)
         cache == CachePulsesFrom(ret.value, 1,
                    [ pulse |-> pulse_cache, stamp |-> cache_timestamps ], now)
     IN  /\ pulse_cache' = cache.pulse
         /\ cache_timestamps' = cache.stamp
         /\ result' = [ result EXCEPT ![t] =
                          [ kind |-> outcome.kind, raised |-> ret.raised,
                            value |-> ret.value, from_cache |-> FALSE, age |-> 0 ] ]
         /\ pc' = [ pc EXCEPT ![t] = IF ret.raised THEN "raised" ELSE "returned" ]
  /\ UNCHANGED << api_key, abuse_key, events_by_date, processed_pulse_ids, lock,
                  clockVars, op, date, target, seed, pulses, events, requests,
                  emitted, inflight, last_writer >>
  /\ UNCHANGED pureVars
  /\ UNCHANGED routeVars

\* ------------------------------------------------- models/attack_event.py

\* Location and AttackEvent declare typed fields and nothing else: no
\* validator, no Field constraint.  The constructor raises for a value of the
\* wrong type only, so on well-typed arguments it returns the event.
Location(country, lat, lng) == [ country |-> country, lat |-> lat, lng |-> lng ]

AttackEvent(id, source_loc, target_loc, type, severity, confidence, timestamp) ==
  [ raised |-> FALSE,
    value |-> [ id |-> id, source |-> source_loc, target |-> target_loc,
                type |-> type,
                severity |-> severity, confidence |-> confidence,
                timestamp |-> timestamp ] ]

\* --------------------------------------------- functions called on their own

programVars ==
  << api_key, abuse_key, events_by_date, processed_pulse_ids, lock, pulse_cache,
     cache_timestamps, now, ticks, pc, op, date, target, seed, pulses, events,
     requests, result, emitted, inflight, last_writer >>

\* The arguments the functions are called with.
SeverityArgs == (0..100) \X (0..MaxReports)

TlpValues ==
  { <<"r","e","d">>, <<"a","m","b","e","r">>, <<"g","r","e","e","n">>,
    <<"w","h","i","t","e">>, <<"u","n","k","n","o","w","n">>, <<"R","e","d">>,
    <<"A","M","B","E","R">> }

IndicatorCounts == { 0, 4, 10, 50, 51, 100, 101, 150 }

TagWords ==
  { <<"D","D","o","S">>, <<"s","s","h">>, <<"s","s","h","-","l","o","g","i","n">>,
    <<"B","o","t","n","e","t">>, <<"t","r","o","j","a","n","-","x">>,
    <<"u","d","p","-","f","l","o","o","d">>,
    <<"r","o","b","o","t","-","p","a","s","s","w","o","r","d">>,
    <<"A","P","T">>, <<"H","i","g","h">>, <<"p","h","i","s","h","i","n","g">> }

TagLists == SeqsUpTo(TagWords, MaxTags)

PulseArgs ==
  { [ id |-> 0, indicators |-> [ i \in 1..n |-> "IPv4" ], tlp |-> tlp, tags |-> tags,
      created |-> [ text |-> "", millis |-> 0 ] ] :
      n \in IndicatorCounts, tlp \in TlpValues, tags \in TagLists }

EventCountries == { "US", "CN" }
EventSeverities == { 0, 1, 3, 5, 6, 9 }
EventConfidences == { -10, 0, 50, 100, 101, 200 }      \* hundredths

InitPure ==
  /\ api_key = FALSE
  /\ abuse_key = FALSE
  /\ events_by_date = EmptyMap
  /\ processed_pulse_ids = {}
  /\ lock = 0
  /\ pulse_cache = EmptyMap
  /\ cache_timestamps = EmptyMap
  /\ now = 0
  /\ ticks = 0
  /\ pc = [ t \in Tasks |-> "idle" ]
  /\ op = [ t \in Tasks |-> "none" ]
  /\ date = [ t \in Tasks |-> 0 ]
  /\ target = [ t \in Tasks |-> 0 ]
  /\ seed = [ t \in Tasks |-> 0 ]
  /\ pulses = [ t \in Tasks |-> << >> ]
  /\ events = [ t \in Tasks |-> << >> ]
  /\ requests = [ t \in Tasks |-> 0 ]
  /\ result = [ t \in Tasks |-> NoResult ]
  /\ emitted = [ p \in PulseIds |-> {} ]
  /\ inflight = [ t \in Tasks |-> {} ]
  /\ last_writer = [ d \in AllDays |-> 0 ]
  /\ http = [ t \in Tasks |-> NoRequest ]
  /\ year_padded \in BOOLEAN
  /\ days_ago = 0
  /\ serving = TRUE
  /\ reply = NoReturn
  /\ \/ \E a \in SeverityArgs :
          call = [ fn |-> "calculate_severity",
                   abuse_confidence_score |-> a[1], total_reports |-> a[2] ]
     \/ \E p \in PulseArgs :
          call = [ fn |-> "calculate_severity_from_pulse", pulse |-> p ]
     \/ \E tags \in TagLists :
          call = [ fn |-> "map_tags_to_attack_type", tags |-> tags ]
     \/ \E s \in EventCountries, g \in EventCountries,
           sev \in EventSeverities, conf \in EventConfidences :
          call = [ fn |-> "AttackEvent", source |-> s, target |-> g,
                   severity |-> sev, confidence |-> conf ]

Returned(value) == [ returned |-> TRUE, raised |-> FALSE, value |-> value ]

CallCalculateSeverity ==
  /\ call.fn = "calculate_severity"
  /\ ~reply.returned
  /\ reply' = Returned(calculate_severity(call.abuse_confidence_score, call.total_reports))
  /\ UNCHANGED << programVars, call >>
  /\ UNCHANGED routeVars

CallCalculateSeverityFromPulse ==
  /\ call.fn = "calculate_severity_from_pulse"
  /\ ~reply.returned
  /\ reply' = Returned(calculate_severity_from_pulse(call.pulse))
  /\ UNCHANGED << programVars, call >>
  /\ UNCHANGED routeVars

CallMapTags ==
  /\ call.fn = "map_tags_to_attack_type"
  /\ ~reply.returned
  /\ reply' = Returned(map_tags_to_attack_type(call.tags))
  /\ UNCHANGED << programVars, call >>
  /\ UNCHANGED routeVars

CallAttackEvent ==
  /\ call.fn = "AttackEvent"
  /\ ~reply.returned
  /\ LET built == AttackEvent(<< 0, 0 >>,
                              Location(call.source, 0, 0), Location(call.target, 0, 0),
                              "ddos", call.severity, call.confidence, 0)
     IN  reply' = [ returned |-> TRUE, raised |-> built.raised, value |-> built.value ]
  /\ UNCHANGED << programVars, call >>
  /\ UNCHANGED routeVars

\* ---------------------------------------------------------- specifications

\* The store and the adapters it and its callers use, at one instant of the
\* clock.
Next ==
  \E t \in Tasks :
    \/ \E d \in Dates, s \in Seeds : FetchStart(t, d, s)
    \/ \E outcome \in PulseOutcomes : FetchRespondEmpty(t, outcome)
    \/ \E outcome \in PulseOutcomes : FetchRespondPulses(t, outcome)
    \/ AcquireLock(t)
    \/ WriteEntry(t)
    \/ BlacklistStart(t)
    \/ \E outcome \in BlacklistOutcomes : BlacklistRespond(t, outcome)

Spec == Init /\ [][Next]_vars

\* The OTX client on its own, with the clock running.
NextCache ==
  \/ \E dt \in TickSeconds : Tick(dt)
  \/ \E t \in Tasks :
       \/ SubscribedStart(t)
       \/ \E outcome \in PulseOutcomes : SubscribedRespond(t, outcome)
       \/ \E p \in PulseIds : LookupStart(t, p)
       \/ \E outcome \in AllLookupOutcomes : LookupRespond(t, outcome)

SpecCache == Init /\ [][NextCache]_vars

\* The functions of the adapters and the event model, each called once on
\* arguments of its domain.
NextPure ==
  \/ CallCalculateSeverity
  \/ CallCalculateSeverityFromPulse
  \/ CallMapTags
  \/ CallAttackEvent

SpecPure == InitPure /\ [][NextPure]_vars

\* ------------------------------------------------------------------ reading

\* HistoricalDataStore.get_events_for_date: self.events_by_date.get(d, [])
get_events_for_date(store, d) == IF d \in DOMAIN store THEN store[d] ELSE << >>

\* The sum of the values of a dict.
RECURSIVE SumValues(_)
SumValues(f) ==
  IF DOMAIN f = {} THEN 0
  ELSE LET k == CHOOSE k \in DOMAIN f : TRUE
       IN  f[k] + SumValues([ j \in (DOMAIN f) \ { k } |-> f[j] ])

\* The indexes of the events of a list whose source country is c.
FromCountry(evs, c) == { i \in 1..Len(evs) : evs[i].source = c }

\* A variant of the tally that stores 1 where the code adds 1.
events_by_country_set(evs) ==
  [ c \in { evs[i].source : i \in 1..Len(evs) } |-> 1 ]

\* Lines 213, 218: events_by_country[event["source"]["country"]] += 1, over
\* the list.
events_by_country(evs) ==
  [ c \in { evs[i].source : i \in 1..Len(evs) } |-> Cardinality(FromCountry(evs, c)) ]

\* Lines 214, 219: events_by_type[event["type"]] += 1, over the list.
events_by_type(evs) ==
  [ ty \in { evs[i].type : i \in 1..Len(evs) } |->
      Cardinality({ i \in 1..Len(evs) : evs[i].type = ty }) ]

\* Lines 215, 220: total_severity += event["severity"], over the events of
\* the index set.
RECURSIVE SeveritySum(_, _)
SeveritySum(evs, ix) ==
  IF ix = {} THEN 0
  ELSE LET i == CHOOSE i \in ix : TRUE
       IN  evs[i].severity + SeveritySum(evs, ix \ { i })

\* Python's None, where a record could stand instead.
None == [ none |-> TRUE ]

\* HistoricalDataStore.get_summary_for_date.  avg_severity, a quotient of
\* two integers, is kept as the pair.
get_summary_for_date(store, d) ==
  LET evs == get_events_for_date(store, d)
  IN  IF evs = << >> THEN None
      ELSE [ date |-> d,
             total_events |-> Len(evs),
             events_by_country |-> events_by_country(evs),
             events_by_type |-> events_by_type(evs),
             avg_severity |-> [ sum |-> SeveritySum(evs, 1..Len(evs)),
                                count |-> Len(evs) ] ]

\* The keys of country_data in insertion order: the source countries of the
\* list, each where an event names it first.
CountriesInOrder(evs) ==
  LET index == [ i \in 1..Len(evs) |-> i ]
      firsts == SelectSeq(index,
                  LAMBDA i : \A j \in 1..(i - 1) : evs[j].source # evs[i].source)
  IN  [ k \in 1..Len(firsts) |-> evs[firsts[k]].source ] \o << >>

\* Lines 238-251: the CountryStats of country c.
CountryStatsOf(evs, c) ==
  LET ix == FromCountry(evs, c)
  IN  [ country |-> c,
        total_events |-> Cardinality(ix),
        avg_severity |-> [ sum |-> SeveritySum(evs, ix), count |-> Cardinality(ix) ],
        attack_types |-> [ ty \in { evs[i].type : i \in ix } |->
                             Cardinality({ i \in ix : evs[i].type = ty }) ] ]

\* x put into a list ordered by non-increasing total_events, behind every
\* entry that counts as many (sorted is stable, with reverse=True too).
InsertByTotal(sorted, x) ==
  LET ahead == { i \in 1..Len(sorted) : sorted[i].total_events >= x.total_events }
      n == Cardinality(ahead)
  IN  SubSeq(sorted, 1, n) \o << x >> \o SubSeq(sorted, n + 1, Len(sorted))

RECURSIVE SortFrom(_, _, _)
SortFrom(stats, i, acc) ==
  IF i > Len(stats) THEN acc
  ELSE SortFrom(stats, i + 1, InsertByTotal(acc, stats[i]))

\* A variant that returns the list as the dict gave it.
left_unsorted(stats) == stats

\* Line 253: sorted(stats, key=lambda x: x.total_events, reverse=True)
sorted_by_total_events(stats) == SortFrom(stats, 1, << >>)

\* HistoricalDataStore.get_country_stats
get_country_stats(store, d) ==
  LET evs == get_events_for_date(store, d)
      countries == CountriesInOrder(evs)
  IN  IF evs = << >> THEN << >>
      ELSE sorted_by_total_events(
             [ k \in 1..Len(countries) |-> CountryStatsOf(evs, countries[k]) ] \o << >>)

\* sorted(keys, reverse=True) on strings
RECURSIVE SortedDescending(_)
SortedDescending(S) ==
  IF S = {} THEN << >>
  ELSE LET m == CHOOSE m \in S : \A x \in S \ { m } : StrLess(x, m)
       IN  << m >> \o SortedDescending(S \ { m })

\* HistoricalDataStore.get_available_dates: the keys, sorted as strings.
get_available_dates(store, padded) ==
  SortedDescending({ DateStr(d, padded) : d \in DOMAIN store })

\* ------------------------------------------------------------ api/history.py

\* The day whose key is the string raw, for a string that is a key.
HasKey(store, raw, padded) == \E d \in DOMAIN store : DateStr(d, padded) = raw

KeyDay(store, raw, padded) == CHOOSE d \in DOMAIN store : DateStr(d, padded) = raw

\* What a handler reads from the store with the request's own string.
ReadBy(route, store, raw, padded) ==
  IF ~HasKey(store, raw, padded)
    THEN (IF route = "summary" THEN None ELSE << >>)
  ELSE LET d == KeyDay(store, raw, padded)
       IN  CASE route = "summary" -> get_summary_for_date(store, d)
             [] route = "countries" -> get_country_stats(store, d)
             [] OTHER -> get_events_for_date(store, d)

\* The end of a read handler: 404 on None or an empty list, else the value.
ReadResponse(route, raw, store, padded) ==
  LET value == ReadBy(route, store, raw, padded)
  IN  IF value = None \/ value = << >>
        THEN [ route |-> route, raw |-> raw, status |-> 404, body |-> << >> ]
      ELSE [ route |-> route, raw |-> raw, status |-> 200, body |-> value ]

\* The end of fetch_data_for_date: status, date and the number of events.
FetchResponse(raw, store, padded) ==
  [ route |-> "fetch", raw |-> raw, status |-> 200,
    body |-> [ status |-> "success", date |-> raw,
               events_fetched |-> Len(ReadBy("events", store, raw, padded)) ] ]

\* raise HTTPException(status_code=400, ...)
BadRequest(route, raw) == [ route |-> route, raw |-> raw, status |-> 400, body |-> << >> ]

\* A request whose handler is suspended in fetch_and_aggregate.
Pending(route, raw) == [ route |-> route, raw |-> raw, status |-> 0, body |-> << >> ]

\* The first day not yet over: datetime.now() lies in day Today.
Today == MaxDates - 1

\* A variant without the comparison with datetime.now().
NeverInFuture(d, clock) == FALSE

\* Line 128: target_date > datetime.now(), the clock counted from midnight
\* of Today.
InFuture(d, clock) == DateMillis(d) > DateMillis(Today) + clock

ReadRoutes == { "summary", "countries", "events" }

\* The date strings requests carry: the ISO string of every day of the
\* window, a day written without zero padding, and strings that name no date.
RawDates ==
  { strftime(CalendarDate(d), TRUE) : d \in AllDates }
    \cup { << "2", "0", "2", "4", "-", "1", "-", "1" >> }
    \cup { << "2", "0", "2", "4", "-", "1", "3", "-", "0", "1" >>,
           << "2", "0", "2", "3", "-", "0", "2", "-", "2", "9" >>,
           << "t", "o", "d", "a", "y" >> }

\* GET /history/dates
HttpGetDates(t) ==
  /\ pc[t] = "idle"
  /\ http[t].route = "none"
  /\ http' = [ http EXCEPT ![t] =
                 [ route |-> "dates", raw |-> << >>, status |-> 200,
                   body |-> get_available_dates(events_by_date, year_padded) ] ]
  /\ UNCHANGED << programVars, pureVars, year_padded >>
  /\ UNCHANGED bootVars

\* GET /history/summary, /history/countries, /history/events up to the first
\* suspension: the date is validated (400), an entry found under the string
\* is read, and without one fetch_and_aggregate is called.
HttpReadStart(t, route, raw, s) ==
  /\ pc[t] = "idle"
  /\ http[t].route = "none"
  /\ LET parsed == strptime(raw)
     IN  IF ~parsed.ok
           THEN /\ http' = [ http EXCEPT ![t] = BadRequest(route, raw) ]
                /\ UNCHANGED programVars
         ELSE IF HasKey(events_by_date, raw, year_padded)
           THEN /\ http' = [ http EXCEPT ![t] =
                               ReadResponse(route, raw, events_by_date, year_padded) ]
                /\ UNCHANGED programVars
         ELSE /\ InWindow(parsed.ymd)
              /\ http' = [ http EXCEPT ![t] = Pending(route, raw) ]
              /\ FetchBegin(t, DayNumber(parsed.ymd), s)
  /\ UNCHANGED << pureVars, year_padded >>
  /\ UNCHANGED bootVars

\* POST /history/fetch/{date} up to the first suspension: the date is
\* validated and must not lie in the future (400), then fetch_and_aggregate
\* is called.
HttpFetchStart(t, raw, s) ==
  /\ pc[t] = "idle"
  /\ http[t].route = "none"
  /\ LET parsed == strptime(raw)
     IN  IF ~parsed.ok
           THEN /\ http' = [ http EXCEPT ![t] = BadRequest("fetch", raw) ]
                /\ UNCHANGED programVars
         ELSE /\ InWindow(parsed.ymd)
              /\ IF InFuture(DayNumber(parsed.ymd), now)
                   THEN /\ http' = [ http EXCEPT ![t] = BadRequest("fetch", raw) ]
                        /\ UNCHANGED programVars
                   ELSE /\ http' = [ http EXCEPT ![t] = Pending("fetch", raw) ]
                        /\ FetchBegin(t, DayNumber(parsed.ymd), s)
  /\ UNCHANGED << pureVars, year_padded >>
  /\ UNCHANGED bootVars

\* The rest of a handler once fetch_and_aggregate has returned: the store is
\* read with the request's string.  An exception out of fetch_and_aggregate
\* leaves the handler; the framework answers 500.
HttpFinish(t) ==
  /\ http[t].route # "none"
  /\ http[t].status = 0
  /\ pc[t] \in { "done", "raised" }
  /\ http' = [ http EXCEPT ![t] =
                 IF pc[t] = "raised"
                   THEN [ route |-> http[t].route, raw |-> http[t].raw,
                          status |-> 500, body |-> << >> ]
                 ELSE IF http[t].route = "fetch"
                   THEN FetchResponse(http[t].raw, events_by_date, year_padded)
                 ELSE ReadResponse(http[t].route, http[t].raw, events_by_date,
                                   year_padded) ]
  /\ UNCHANGED << programVars, pureVars, year_padded >>
  /\ UNCHANGED bootVars

\* The provider's answers to the fetches the routes start: no pulse, one
\* pulse, or a timeout; one random stream.
RoutePulseOutcomes ==
  { o \in PulseOutcomes : o.kind \in { "ok", "timeout" } /\ Len(o.results) <= 1 }

RouteSeeds == { s \in Seeds : \A s2 \in Seeds : s <= s2 }

\* The history router uses the OTX adapter only.
InitRoutes == Init /\ abuse_key = FALSE

\* The application serving requests, each task one request.
NextRoutes ==
  \E t \in Tasks :
    \/ HttpGetDates(t)
    \/ \E route \in ReadRoutes, raw \in RawDates, s \in RouteSeeds :
         HttpReadStart(t, route, raw, s)
    \/ \E raw \in RawDates, s \in RouteSeeds : HttpFetchStart(t, raw, s)
    \/ \E outcome \in RoutePulseOutcomes : FetchRespondEmpty(t, outcome)
    \/ \E outcome \in RoutePulseOutcomes : FetchRespondPulses(t, outcome)
    \/ AcquireLock(t)
    \/ WriteEntry(t)
    \/ HttpFinish(t)

SpecRoutes == InitRoutes /\ [][NextRoutes]_vars

\* ------------------------------------------------- the calls under scheduling

\* The provider request of task t's call completes or times out.
FetchResponds(t) ==
  \E outcome \in RoutePulseOutcomes :
    FetchRespondEmpty(t, outcome) \/ FetchRespondPulses(t, outcome)

\* Calls of fetch_and_aggregate and nothing else.
NextFetch ==
  \E t \in Tasks :
    \/ \E d \in Dates, s \in Seeds : FetchStart(t, d, s)
    \/ \E outcome \in RoutePulseOutcomes : FetchRespondEmpty(t, outcome)
    \/ \E outcome \in RoutePulseOutcomes : FetchRespondPulses(t, outcome)
    \/ AcquireLock(t)
    \/ WriteEntry(t)

\* What the event loop and the HTTP client give every call: the GET of
\* otx.py 54 completes or runs into the client's timeout, and a coroutine
\* that can run is run (a waiter of the lock is woken once it is released).
FetchFairness ==
  \A t \in Tasks :
    /\ WF_vars(FetchResponds(t))
    /\ WF_vars(AcquireLock(t))
    /\ WF_vars(WriteEntry(t))

SpecFetchFair == InitRoutes /\ [][NextFetch]_vars /\ FetchFairness

\* --------------------------------------------------------- main.py: lifespan

\* The task that runs lifespan; the others serve requests.
LifespanTask == 1

\* The calendar day datetime.now() lies in, the clock counted from midnight
\* of the day the process starts.
CurrentDay(clock) == BootDay + (clock \div SecondsPerDay)

\* The process starts: nothing stored, lifespan not yet entered.
InitStartup ==
  /\ api_key \in BOOLEAN
  /\ abuse_key = FALSE
  /\ events_by_date = EmptyMap
  /\ processed_pulse_ids = {}
  /\ lock = 0
  /\ pulse_cache = EmptyMap
  /\ cache_timestamps = EmptyMap
  /\ now = 0
  /\ ticks = 0
  /\ pc = [ t \in Tasks |-> "idle" ]
  /\ op = [ t \in Tasks |-> "none" ]
  /\ date = [ t \in Tasks |-> 0 ]
  /\ target = [ t \in Tasks |-> 0 ]
  /\ seed = [ t \in Tasks |-> 0 ]
  /\ pulses = [ t \in Tasks |-> << >> ]
  /\ events = [ t \in Tasks |-> << >> ]
  /\ requests = [ t \in Tasks |-> 0 ]
  /\ result = [ t \in Tasks |-> NoResult ]
  /\ emitted = [ p \in PulseIds |-> {} ]
  /\ inflight = [ t \in Tasks |-> {} ]
  /\ last_writer = [ d \in AllDays |-> 0 ]
  /\ call = NoCall
  /\ reply = NoReturn
  /\ http = [ t \in Tasks |-> NoRequest ]
  /\ year_padded \in BOOLEAN
  /\ days_ago = 0
  /\ serving = FALSE

\* Lines 25-27: the next iteration of the loop reads the clock and calls
\* fetch_and_aggregate(datetime.now() - timedelta(days=days_ago)).
LifespanCall(s) ==
  /\ ~serving
  /\ days_ago < StartupDays
  /\ days_ago' = days_ago + 1
  /\ FetchBegin(LifespanTask, CurrentDay(now) - days_ago', s)
  /\ UNCHANGED << pureVars, http, year_padded, serving >>

\* Line 27: the await returns into the loop.
LifespanResume ==
  /\ ~serving
  /\ op[LifespanTask] = "fetch"
  /\ pc[LifespanTask] = "done"
  /\ pc' = [ pc EXCEPT ![LifespanTask] = "idle" ]
  /\ UNCHANGED << api_key, abuse_key, events_by_date, processed_pulse_ids, lock,
                  cacheVars, clockVars, op, date, target, seed, pulses, events,
                  requests, result, emitted, inflight, last_writer >>
  /\ UNCHANGED pureVars
  /\ UNCHANGED routeVars

\* Lines 28-30: the loop is over, lifespan yields and the server starts to
\* accept requests.
LifespanYield ==
  /\ ~serving
  /\ days_ago = StartupDays
  /\ pc[LifespanTask] = "idle"
  /\ serving' = TRUE
  /\ UNCHANGED << programVars, pureVars, http, year_padded, days_ago >>

\* The clock passes midnight.
MidnightPasses ==
  /\ now < MaxMidnights * SecondsPerDay
  /\ Tick(SecondsPerDay)

\* A request is served: the server hands requests to the routes once
\* lifespan has yielded.
Serve(t) ==
  /\ serving
  /\ HttpGetDates(t)

\* The application from the start of the process on.
NextStartup ==
  \/ \E s \in RouteSeeds : LifespanCall(s)
  \/ LifespanResume
  \/ LifespanYield
  \/ MidnightPasses
  \/ \E t \in Tasks :
       \/ \E outcome \in RoutePulseOutcomes : FetchRespondEmpty(t, outcome)
       \/ \E outcome \in RoutePulseOutcomes : FetchRespondPulses(t, outcome)
       \/ AcquireLock(t)
       \/ WriteEntry(t)
       \/ Serve(t)

SpecStartup == InitStartup /\ [][NextStartup]_vars

\* ------------------------------------------------------------- properties

FetchTasks == { t \in Tasks : op[t] = "fetch" }

\* A fetch_and_aggregate call that has built its list and not yet written it.
Built(t) == op[t] = "fetch" /\ pc[t] \in { "lock", "write" }

\* t and u were in flight at the same time.
Overlapped(t, u) == t \in inflight[u] \/ u \in inflight[t]

\* The entry of d as a 0- or 1-tuple: tells an absent entry from an empty one.
EntryOf(store, d) == IF d \in DOMAIN store THEN << store[d] >> ELSE << >>

\* The events of the list built for pulse p.
EventsFor(list, p) == { i \in 1..Len(list) : list[i].pulse = p }

\* list is the whole list call w built for date d: its events are w's, in
\* order from the first, and it is either w's synthetic list or, for every
\* pulse it draws on, all the events w built for that pulse.
IsCompleteListOf(list, w, d) ==
  /\ list # << >>
  /\ \A i \in 1..Len(list) : list[i].id = << w, i - 1 >>
  /\ IF list[1].pulse = 0
       THEN list = generate_synthetic_data(w, d, seed[w])
       ELSE \A i \in 1..Len(list) :
              /\ list[i].pulse \in PulseIds
              /\ w \in emitted[list[i].pulse]
              /\ Cardinality(EventsFor(list, list[i].pulse))
                   = EventsOfPulse(PulseOfId(list[i].pulse))

\* C1: once fetch_and_aggregate(D) has returned, whatever the provider did
\* (pulses, an empty list, a failure, no API key), get_events_for_date(D) is
\* a non-empty list.
C1_EntryNonEmptyAfterFetch ==
  \A t \in FetchTasks :
    pc[t] = "done" => get_events_for_date(events_by_date, date[t]) # << >>

\* A call whose GET was answered has returned and its date holds the
\* synthetic list it fell back to.
C1_Witness ==
  \E t \in FetchTasks :
    /\ pc[t] = "done"
    /\ requests[t] = 1
    /\ last_writer[date[t]] = t
    /\ get_events_for_date(events_by_date, date[t])[1].pulse = 0

\* C2: the entry of a date holds only the events of the call that wrote it
\* last, from that call's first event on: a second call for the date replaces
\* what the first stored, nothing of the first remains.
C2_Replacement ==
  \A d \in DOMAIN events_by_date :
    \A i \in 1..Len(events_by_date[d]) :
      events_by_date[d][i].id = << last_writer[d], i - 1 >>

\* Two calls for one date, the second started after the first returned; the
\* first built events from a pulse, the stored list is the second's and holds
\* none of them.
C2_Witness ==
  \E t, u \in FetchTasks :
    /\ t # u
    /\ pc[t] = "done" /\ pc[u] = "done"
    /\ date[t] = date[u]
    /\ ~Overlapped(t, u)
    /\ last_writer[date[u]] = u
    /\ \E p \in PulseIds : t \in emitted[p]
    /\ \A i \in 1..Len(events_by_date[date[u]]) : events_by_date[date[u]][i].id[1] = u

\* C3: events are built for a pulse id by at most one call of the store: a
\* later call whose response holds the id again builds none for it.
C3_PulseEmittedOnce ==
  /\ \A p \in PulseIds : Cardinality(emitted[p]) <= 1
  /\ \A t \in FetchTasks : \A i \in 1..Len(events[t]) :
       events[t][i].pulse # 0 => emitted[events[t][i].pulse] = { t }

\* A call has processed a response holding a pulse with IP indicators that an
\* earlier call had consumed, and has built no event for it.
C3_Witness ==
  \E t \in FetchTasks : \E i \in 1..Len(pulses[t]) :
    /\ Built(t)
    /\ EventsOfPulse(pulses[t][i]) > 0
    /\ pulses[t][i].id \in processed_pulse_ids
    /\ t \notin emitted[pulses[t][i].id]
    /\ EventsFor(events[t], pulses[t][i].id) = {}

\* C4 as the specification states it: after a call has processed a response,
\* every pulse of the response is in the consumed-id set, one without IP
\* indicators included.
C4_EveryPulseConsumed ==
  \A t \in FetchTasks :
    Built(t) => \A i \in 1..Len(pulses[t]) : pulses[t][i].id \in processed_pulse_ids

\* C4, amended: after a call has processed a response, every pulse of it with
\* at least one IP indicator is in the consumed-id set; and an id is in the
\* set only if events were built for it, so a pulse without IP indicators is
\* not added.
C4_PulsesWithEventsConsumed ==
  /\ \A t \in FetchTasks :
       Built(t) => \A i \in 1..Len(pulses[t]) :
                     EventsOfPulse(pulses[t][i]) > 0 => pulses[t][i].id \in processed_pulse_ids
  /\ processed_pulse_ids = { p \in PulseIds : emitted[p] # {} }

\* A call has processed a response holding a pulse with IP indicators, now
\* consumed, and one without, not consumed.
C4_Witness ==
  \E t \in FetchTasks : \E i, j \in 1..Len(pulses[t]) :
    /\ Built(t)
    /\ EventsOfPulse(pulses[t][i]) > 0
    /\ pulses[t][i].id \in processed_pulse_ids
    /\ EventsOfPulse(pulses[t][j]) = 0
    /\ pulses[t][j].id \notin processed_pulse_ids

\* C5: a step of a call for date D leaves the entry of every other date as
\* it was, and after it every entry is a list a call for that very date built.
C5_OtherDatesUntouched ==
  [][ /\ \A t \in Tasks :
           (pc'[t] # pc[t] /\ op'[t] = "fetch") =>
             \A d \in Dates \ { date'[t] } :
               EntryOf(events_by_date', d) = EntryOf(events_by_date, d)
      /\ \A d \in DOMAIN events_by_date' :
           /\ last_writer'[d] \in Tasks
           /\ date'[last_writer'[d]] = d
           /\ \A i \in 1..Len(events_by_date'[d]) :
                events_by_date'[d][i].id[1] = last_writer'[d]
    ]_vars

\* Two calls for different dates were in flight together and both returned;
\* each date holds the list of the call made for it.
C5_Witness ==
  \E t, u \in FetchTasks :
    /\ date[t] # date[u]
    /\ Overlapped(t, u)
    /\ pc[t] = "done" /\ pc[u] = "done"
    /\ IsCompleteListOf(get_events_for_date(events_by_date, date[t]), t, date[t])
    /\ IsCompleteListOf(get_events_for_date(events_by_date, date[u]), u, date[u])

\* C6: when calls for one date that were in flight together have all
\* returned, the entry is exactly the complete list of the one of them that
\* wrote last: neither a merge nor the list of an earlier writer.
C6_LastWriteWins ==
  \A d \in Dates :
    LET calls == { t \in FetchTasks : date[t] = d }
    IN  (calls # {} /\ \A t \in calls : pc[t] = "done") =>
          /\ last_writer[d] \in calls
          /\ IsCompleteListOf(get_events_for_date(events_by_date, d), last_writer[d], d)

\* Two calls for one date were in flight together, both have returned, and
\* the one that started first wrote last.
C6_Witness ==
  \E t, u \in FetchTasks :
    /\ t # u
    /\ date[t] = date[u]
    /\ pc[t] = "done" /\ pc[u] = "done"
    /\ t \in inflight[u]
    /\ last_writer[date[t]] = t

\* C7: in every state, calls in flight or not, what get_events_for_date(D)
\* returns is either the empty list of an absent entry or the complete list
\* of one call for D that has returned: never a list still being built.
C7_ReadsSeeCompleteLists ==
  \A d \in Dates :
    \/ d \notin DOMAIN events_by_date
    \/ \E t \in FetchTasks :
         /\ pc[t] = "done"
         /\ date[t] = d
         /\ IsCompleteListOf(get_events_for_date(events_by_date, d), t, d)

\* A call for D has built a list and waits to write it while D holds the
\* complete list of an earlier call.
C7_Witness ==
  \E t, u \in FetchTasks :
    /\ t # u
    /\ date[t] = date[u]
    /\ Built(t) /\ events[t] # << >>
    /\ pc[u] = "done"
    /\ get_events_for_date(events_by_date, date[t]) # events[t]
    /\ IsCompleteListOf(get_events_for_date(events_by_date, date[t]), u, date[t])

\* C8: a call issues at most one GET to the provider: exactly one once it
\* has started with a key, each call its own; when the attempt fails or
\* yields no pulse the call holds the synthetic list without a second GET.
C8_OneRequestPerCall ==
  \A t \in FetchTasks :
    /\ requests[t] <= 1
    /\ api_key => requests[t] = 1
    /\ (Built(t) /\ pulses[t] = << >>) =>
         events[t] = generate_synthetic_data(t, date[t], seed[t])

\* Two calls for one date in flight together, each with its own GET; the
\* GET of one has failed and that call holds its synthetic list.
C8_Witness ==
  \E t, u \in FetchTasks :
    /\ t # u
    /\ date[t] = date[u]
    /\ pc[t] = "lock" /\ result[t].kind \in FailureKinds
    /\ requests[t] = 1
    /\ events[t] = generate_synthetic_data(t, date[t], seed[t])
    /\ pc[u] = "request" /\ requests[u] = 1

C10_CacheAnswersYoungerThanTTL ==
  \A t \in Tasks :
    (op[t] = "lookup" /\ result[t].from_cache) => result[t].age < OTX_CACHE_TTL

\* get_pulse_by_id has answered from an entry a day old or older.
C10_Witness ==
  \E t \in Tasks :
    /\ op[t] = "lookup"
    /\ result[t].from_cache
    /\ result[t].age >= SecondsPerDay

\* C11: for every date with an entry, get_summary_for_date gives
\* total_events equal to the length of get_events_for_date, and the counts
\* of events_by_country and of events_by_type each add up to total_events.
C11_SummaryTotals ==
  \A d \in DOMAIN events_by_date :
    LET summary == get_summary_for_date(events_by_date, d)
    IN  /\ summary # None
        /\ summary.total_events = Len(get_events_for_date(events_by_date, d))
        /\ SumValues(summary.events_by_country) = summary.total_events
        /\ SumValues(summary.events_by_type) = summary.total_events

\* An entry whose summary counts one country several times and tells more
\* than one attack type apart.
C11_Witness ==
  \E d \in DOMAIN events_by_date :
    LET summary == get_summary_for_date(events_by_date, d)
    IN  /\ summary # None
        /\ \E c \in DOMAIN summary.events_by_country : summary.events_by_country[c] > 1
        /\ Cardinality(DOMAIN summary.events_by_type) > 1

\* C12: for every date with an entry, get_country_stats is ordered by
\* non-increasing total_events, has exactly one entry for each source country
\* of the date's events, and the attack_types counts of every entry add up
\* to its total_events.
C12_CountryStats ==
  \A d \in DOMAIN events_by_date :
    LET evs == get_events_for_date(events_by_date, d)
        stats == get_country_stats(events_by_date, d)
    IN  /\ \A i \in 1..(Len(stats) - 1) : stats[i].total_events >= stats[i + 1].total_events
        /\ { stats[i].country : i \in 1..Len(stats) } = { evs[i].source : i \in 1..Len(evs) }
        /\ \A i, j \in 1..Len(stats) : stats[i].country = stats[j].country => i = j
        /\ \A i \in 1..Len(stats) :
             /\ stats[i].total_events = Cardinality(FromCountry(evs, stats[i].country))
             /\ SumValues(stats[i].attack_types) = stats[i].total_events

\* An entry whose countries, in the order the events name them first, are
\* not in the order of their counts: the statistics were reordered.
C12_Witness ==
  \E d \in DOMAIN events_by_date :
    LET evs == get_events_for_date(events_by_date, d)
        countries == CountriesInOrder(evs)
        stats == get_country_stats(events_by_date, d)
    IN  /\ Len(stats) > 2
        /\ \E i \in 1..Len(stats) : stats[i].country # countries[i]
        /\ \E i \in 1..Len(stats) : Cardinality(DOMAIN stats[i].attack_types) > 1

\* C14: with no provider key configured, the list fetch_and_aggregate
\* builds and the entry it writes hold between 30 and 80 events, each with
\* a source country other than its target country.
C14_SyntheticWithoutKey ==
  ~api_key =>
    /\ \A t \in FetchTasks :
         pc[t] # "idle" => requests[t] = 0
    /\ \A t \in FetchTasks :
         Built(t) =>
           /\ Len(events[t]) \in SyntheticMin..SyntheticMax
           /\ \A i \in 1..Len(events[t]) : events[t][i].source # events[t][i].target
    /\ \A d \in DOMAIN events_by_date :
         /\ Len(events_by_date[d]) \in SyntheticMin..SyntheticMax
         /\ \A i \in 1..Len(events_by_date[d]) :
              /\ events_by_date[d][i].pulse = 0
              /\ events_by_date[d][i].source # events_by_date[d][i].target

\* Without a key two dates hold entries, one of 30 events and one of 80.
C14_Witness ==
  /\ ~api_key
  /\ \E d, e \in DOMAIN events_by_date :
       /\ Len(events_by_date[d]) = SyntheticMin
       /\ Len(events_by_date[e]) = SyntheticMax

CountryCodes == { COUNTRY_LOCATIONS[i] : i \in 1..Len(COUNTRY_LOCATIONS) }

\* An event as the store holds it: source and target countries of the
\* table and different, severity an integer from 1 to 5, confidence from 0
\* to 1 (in hundredths), type one of the three.
WellFormedEvent(e) ==
  /\ e.source \in CountryCodes
  /\ e.target \in CountryCodes
  /\ e.source # e.target
  /\ e.severity \in 1..5
  /\ e.confidence \in 0..100
  /\ e.type \in { "ddos", "bot", "bruteforce" }

\* C15: every event of every store entry, pulse-derived or synthetic, has a
\* source country other than its target country, a severity in 1..5, a
\* confidence within [0, 1] and an attack type among ddos, bot, bruteforce.
C15_StoredEventsWellFormed ==
  \A d \in DOMAIN events_by_date :
    \A i \in 1..Len(events_by_date[d]) : WellFormedEvent(events_by_date[d][i])

\* The store holds a synthetic entry and a pulse-derived one, the latter
\* with events of two pulses.
C15_Witness ==
  \E d, e \in DOMAIN events_by_date :
    /\ events_by_date[d][1].pulse = 0
    /\ events_by_date[e][1].pulse # 0
    /\ \E i \in 1..Len(events_by_date[e]) :
         events_by_date[e][i].pulse # events_by_date[e][1].pulse

InvalidEventCall ==
  /\ call.fn = "AttackEvent"
  /\ \/ call.source = call.target
     \/ call.severity \notin 1..5
     \/ call.confidence < 0
     \/ call.confidence > 100

\* C16 (as stated): constructing an AttackEvent whose source and target
\* countries are equal, or whose severity is outside 1..5, or whose
\* confidence is outside [0,1], is rejected: the construction raises and no
\* event is produced.
C16_InvalidEventRejected ==
  (InvalidEventCall /\ reply.returned) => reply.raised

\* An invalid construction has been attempted and has run to its end.
C16_Witness ==
  /\ InvalidEventCall
  /\ reply.returned
  /\ call.source = call.target
  /\ call.severity = 9
  /\ call.confidence = 200

\* The mapping of the claim in exact arithmetic, in hundredths:
\* 100 * combined = score + min(reports, 50).
ThresholdMapping(score, reports) ==
  LET combined == score + (IF reports < 50 THEN reports ELSE 50)
  IN  IF combined >= 120 THEN 5
      ELSE IF combined >= 90 THEN 4
      ELSE IF combined >= 60 THEN 3
      ELSE IF combined >= 30 THEN 2
      ELSE 1

\* C17 (as stated): for every score in 0..100 and every report count >= 0
\* calculate_severity returns the threshold mapping of
\* combined = score/100 + min(reports/100, 0.5); (100,100) gives 5, (30,0)
\* gives 2, (0,0) gives 1; the result does not decrease when either argument
\* grows by one.
C17_SeverityIsThresholdMapping ==
  (call.fn = "calculate_severity" /\ reply.returned) =>
    LET score == call.abuse_confidence_score
        reports == call.total_reports
    IN  /\ reply.value = ThresholdMapping(score, reports)
        /\ (score = 100 /\ reports = 100) => reply.value = 5
        /\ (score = 30 /\ reports = 0) => reply.value = 2
        /\ (score = 0 /\ reports = 0) => reply.value = 1
        /\ score < 100 => reply.value <= calculate_severity(score + 1, reports)
        /\ reply.value <= calculate_severity(score, reports + 1)

\* calculate_severity has answered an input whose combined value is exactly
\* a threshold (0.7 + 0.2).
C17_Witness ==
  /\ call.fn = "calculate_severity"
  /\ reply.returned
  /\ call.abuse_confidence_score = 70
  /\ call.total_reports = 20

\* What holds of calculate_severity: the result is within one below the
\* exact mapping and equal to it away from the thresholds, the three named
\* cases, and monotonicity.
SeverityUpToRounding ==
  (call.fn = "calculate_severity" /\ reply.returned) =>
    LET score == call.abuse_confidence_score
        reports == call.total_reports
        exact == ThresholdMapping(score, reports)
        hundredths == score + (IF reports < 50 THEN reports ELSE 50)
    IN  /\ reply.value \in { exact - 1, exact }
        /\ hundredths \notin { 30, 60, 90, 120 } => reply.value = exact
        /\ (score = 100 /\ reports = 100) => reply.value = 5
        /\ (score = 30 /\ reports = 0) => reply.value = 2
        /\ (score = 0 /\ reports = 0) => reply.value = 1
        /\ score < 100 => reply.value <= calculate_severity(score + 1, reports)
        /\ reply.value <= calculate_severity(score, reports + 1)

\* The base score the claim gives each TLP value.
ClaimedTlpBase(tlp) ==
  IF tlp = <<"r","e","d">> THEN 5
  ELSE IF tlp = <<"a","m","b","e","r">> THEN 4
  ELSE IF tlp = <<"g","r","e","e","n">> THEN 3
  ELSE 2

HasCriticalTag(tags) ==
  \E i \in 1..Len(tags) :
    Lower(tags[i]) \in { <<"a","p","t">>, <<"c","r","i","t","i","c","a","l">>,
                         <<"h","i","g","h">>, <<"s","e","v","e","r","e">>,
                         <<"t","a","r","g","e","t","e","d">> }

\* C18: calculate_severity_from_pulse returns an integer in 1..5 equal to the
\* TLP base score (red 5, amber 4, green 3, white 2, anything else 2) plus 1
\* if there are more than 100 indicators, plus 1 if a tag is, ignoring case,
\* in the critical set, each step capped at 5; white with 10 indicators and
\* no critical tag gives 2, red with 150 indicators and a critical tag 5.
C18_PulseSeverity ==
  (call.fn = "calculate_severity_from_pulse" /\ reply.returned) =>
    LET tlp == Lower(call.pulse.tlp)
        count == Len(call.pulse.indicators)
        critical == HasCriticalTag(call.pulse.tags)
        counted == Min(5, ClaimedTlpBase(tlp) + (IF count > 100 THEN 1 ELSE 0))
        tagged == Min(5, counted + (IF critical THEN 1 ELSE 0))
    IN  /\ reply.value \in 1..5
        /\ reply.value = tagged
        /\ (tlp = <<"w","h","i","t","e">> /\ count = 10 /\ ~critical) => reply.value = 2
        /\ (tlp = <<"r","e","d">> /\ count = 150 /\ critical) => reply.value = 5

\* The function has answered a pulse whose half-point boost (51..100
\* indicators) truncation drops, and that has a critical tag in upper case.
C18_Witness ==
  /\ call.fn = "calculate_severity_from_pulse"
  /\ reply.returned
  /\ call.pulse.tlp = <<"g","r","e","e","n">>
  /\ Len(call.pulse.indicators) = 51
  /\ call.pulse.tags = << <<"s","s","h">>, <<"A","P","T">> >>
  /\ reply.value = 4

\* C19: map_tags_to_attack_type takes the table value of the first tag (in
\* list order) that equals a table key ignoring case, even when an earlier
\* tag matches a substring heuristic; without such a tag, the heuristic type
\* of the first tag that matches one, the heuristics tried in the order
\* ddos, bruteforce, bot; otherwise, and for an empty list, ddos.
C19_TagMapping ==
  (call.fn = "map_tags_to_attack_type" /\ reply.returned) =>
    LET tags == call.tags
        IsKey(i) == InTagTable(Lower(tags[i]))
        IsFuzzy(i) == HasPattern(Lower(tags[i]))
    IN  /\ \A i \in 1..Len(tags) :
             (IsKey(i) /\ \A j \in 1..(i - 1) : ~IsKey(j))
               => reply.value = TagTableValue(Lower(tags[i]))
        /\ \A i \in 1..Len(tags) :
             ( /\ \A j \in 1..Len(tags) : ~IsKey(j)
               /\ IsFuzzy(i)
               /\ \A j \in 1..(i - 1) : ~IsFuzzy(j) )
               => reply.value = (IF IsDdosPattern(Lower(tags[i])) THEN "ddos"
                                 ELSE IF IsBrutePattern(Lower(tags[i])) THEN "bruteforce"
                                 ELSE "bot")
        /\ (\A i \in 1..Len(tags) : ~IsKey(i) /\ ~IsFuzzy(i)) => reply.value = "ddos"

\* The function has answered a list whose first tag matches only a heuristic
\* (flood: ddos) and whose second tag is a table key (ssh: bruteforce).
C19_Witness ==
  /\ call.fn = "map_tags_to_attack_type"
  /\ reply.returned
  /\ call.tags = << <<"u","d","p","-","f","l","o","o","d">>, <<"s","s","h">> >>
  /\ reply.value = "bruteforce"

\* C13 (as stated): in every reachable state get_available_dates returns
\* exactly the dates that have an entry, each once, in strictly descending
\* date order, and lists no date for which no fetch has completed a write.
C13_AvailableDatesDescending ==
  LET listed == get_available_dates(events_by_date, year_padded)
      DayOf(k) == CHOOSE d \in AllDates : DateStr(d, year_padded) = listed[k]
  IN  /\ Len(listed) = Cardinality(DOMAIN events_by_date)
      /\ { DayOf(k) : k \in 1..Len(listed) } = DOMAIN events_by_date
      /\ \A i \in 1..Len(listed) : \A j \in (i + 1)..Len(listed) : DayOf(i) > DayOf(j)
      /\ \A k \in 1..Len(listed) : last_writer[DayOf(k)] # 0

\* Two requests have each fetched a date, one of a year below 1000, on a
\* platform whose strftime does not pad the year.
C13_Witness ==
  /\ ~year_padded
  /\ DOMAIN events_by_date = { 0, Today }
  /\ \A t \in Tasks : http[t].status = 200

\* The strings of the requests that name no calendar date, and those that
\* name a day after the current one.
MalformedDates ==
  { << "2", "0", "2", "4", "-", "1", "3", "-", "0", "1" >>,
    << "2", "0", "2", "3", "-", "0", "2", "-", "2", "9" >>,
    << "t", "o", "d", "a", "y" >> }

FutureDates == { strftime(CalendarDate(d), TRUE) : d \in { d \in AllDates : d > Today } }

\* C20: a summary, countries, events or manual-fetch request with a
\* malformed date, and a manual-fetch request for a date after the current
\* moment, is answered 400 in the step that receives it; that step and every
\* later one leave the request's task outside fetch_and_aggregate (no call,
\* no provider request), and the step changes neither the store nor the
\* consumed-id set.
C20_InvalidRequestsStopAtTheRoute ==
  [][ \A t \in Tasks :
        /\ ( /\ http[t].route = "none"
             /\ http'[t].route \in ReadRoutes \cup { "fetch" }
             /\ \/ http'[t].raw \in MalformedDates
                \/ http'[t].route = "fetch" /\ http'[t].raw \in FutureDates )
           => /\ http'[t].status = 400
              /\ op'[t] = "none"
              /\ requests' = requests
              /\ events_by_date' = events_by_date
              /\ processed_pulse_ids' = processed_pulse_ids
        /\ http[t].status = 400
           => /\ http'[t] = http[t]
              /\ pc'[t] = "idle"
              /\ op'[t] = "none"
              /\ requests'[t] = 0 ]_vars

\* A manual fetch for a future day has been refused while another manual
\* fetch has stored its date.
C20_Witness ==
  \E t \in Tasks, u \in Tasks :
    /\ http[t].route = "fetch"
    /\ http[t].raw \in FutureDates
    /\ http[t].status = 400
    /\ http[u].route = "fetch"
    /\ http[u].status = 200
    /\ events_by_date # EmptyMap

\* The pulse of a call with its indicator list replaced by one of n entries.
WithIndicatorCount(pulse, n) ==
  [ pulse EXCEPT !.indicators = [ i \in 1..n |-> "IPv4" ] ]

\* C27: for every TLP value and tag list, the severity
\* calculate_severity_from_pulse returns for an indicator count in (50,100]
\* equals the severity it returns for every indicator count of at most 50:
\* the +0.5 boost never changes the result.
C27_HalfBoostNeverCounts ==
  ( /\ call.fn = "calculate_severity_from_pulse"
    /\ reply.returned
    /\ Len(call.pulse.indicators) > 50
    /\ Len(call.pulse.indicators) <= 100 )
  => \A n \in { n \in IndicatorCounts : n <= 50 } :
       reply.value = calculate_severity_from_pulse(WithIndicatorCount(call.pulse, n))

\* The function has answered a white pulse of 100 indicators without a
\* critical tag: 2.5 before int(), 2 after.
C27_Witness ==
  /\ call.fn = "calculate_severity_from_pulse"
  /\ reply.returned
  /\ call.pulse.tlp = <<"w","h","i","t","e">>
  /\ Len(call.pulse.indicators) = 100
  /\ call.pulse.tags = << <<"s","s","h">> >>
  /\ reply.value = 2


\* The number of IPv4 / IPv6 indicators of a pulse, counted on the response.
IpCount(pulse) ==
  Cardinality({ j \in 1..Len(pulse.indicators) : pulse.indicators[j] \in { "IPv4", "IPv6" } })

\* Task t processes a response holding pulses in this step.
ProcessesResponse(t) ==
  /\ op[t] = "fetch"
  /\ pc[t] = "request"
  /\ pc'[t] = "lock"
  /\ pulses'[t] # << >>

\* C22: when a call processes a response, the list it builds holds, for
\* every pulse of the response that was not yet consumed, exactly min(5, n)
\* events, n the number of the pulse's IPv4 / IPv6 indicators (indicators of
\* other types count for nothing); and the events of one pulse have the same
\* type, severity, confidence and timestamp.
C22_EventsPerPulse ==
  [][ \A t \in Tasks :
        ProcessesResponse(t) =>
          \A i \in 1..Len(pulses'[t]) :
            LET pulse == pulses'[t][i]
                mine == EventsFor(events'[t], pulse.id)
            IN  /\ pulse.id \notin processed_pulse_ids =>
                      Cardinality(mine) = Min(MaxEventsPerPulse, IpCount(pulse))
                /\ \A a, b \in mine :
                      /\ events'[t][a].type = events'[t][b].type
                      /\ events'[t][a].severity = events'[t][b].severity
                      /\ events'[t][a].confidence = events'[t][b].confidence
                      /\ events'[t][a].timestamp = events'[t][b].timestamp ]_vars

\* A call has built, from one response, two events for a pulse with two IP
\* indicators among three and five for a pulse with six IP indicators among
\* seven.
C22_Witness ==
  \E t \in FetchTasks : \E i, j \in 1..Len(pulses[t]) :
    /\ Built(t)
    /\ Len(pulses[t][i].indicators) = 3
    /\ IpCount(pulses[t][i]) = 2
    /\ Cardinality(EventsFor(events[t], pulses[t][i].id)) = 2
    /\ IpCount(pulses[t][j]) > MaxEventsPerPulse
    /\ Cardinality(EventsFor(events[t], pulses[t][j].id)) = MaxEventsPerPulse


\* C23: no step removes a date from the dates that have an entry, and no
\* step removes an id from the consumed-id set.
C23_Monotonic ==
  [][ /\ DOMAIN events_by_date \subseteq DOMAIN events_by_date'
      /\ processed_pulse_ids \subseteq processed_pulse_ids' ]_vars

\* Two calls for different dates have returned, each after building events
\* from a pulse of its own: both dates have an entry, both ids are consumed.
C23_Witness ==
  \E t, u \in FetchTasks : \E p, q \in processed_pulse_ids :
    /\ t # u /\ p # q
    /\ pc[t] = "done" /\ pc[u] = "done"
    /\ date[t] # date[u]
    /\ { date[t], date[u] } \subseteq DOMAIN events_by_date
    /\ emitted[p] = { t } /\ emitted[q] = { u }


\* No pulse of the response yields an event: each is consumed already or
\* has no IP indicator.
NothingToBuild(response, processed) ==
  \A i \in 1..Len(response) :
    response[i].id \in processed \/ IpCount(response[i]) = 0

\* The events built from a pulse (not synthetic ones) in a list.
ProviderEvents(list) == { i \in 1..Len(list) : list[i].pulse # 0 }

\* Task t assigns the entry of its date and returns in this step.
Writes(t) == op[t] = "fetch" /\ pc[t] = "write" /\ pc'[t] = "done"

\* C24: a call whose response holds only pulses that are consumed already or
\* have no IP indicator builds the synthetic list, and the list a call has
\* built becomes the entry of its date whatever the entry held before, events
\* built from pulses included.
C24_SyntheticReplaces ==
  [][ \A t \in Tasks :
        /\ ( ProcessesResponse(t) /\ NothingToBuild(pulses'[t], processed_pulse_ids) )
             => /\ events'[t] = generate_synthetic_data(t, date[t], seed[t])
                /\ ProviderEvents(events'[t]) = {}
        /\ Writes(t) => /\ date[t] \in DOMAIN events_by_date'
                        /\ events_by_date'[date[t]] = events[t] ]_vars

\* A call built events from pulse p and stored them under a date; a later
\* call for the date, whose GET was answered, stored a synthetic list over
\* them: p is consumed and no entry holds an event built from it.
C24_Witness ==
  \E t, u \in FetchTasks : \E p \in processed_pulse_ids :
    /\ t # u
    /\ pc[t] = "done" /\ pc[u] = "done"
    /\ date[t] = date[u]
    /\ emitted[p] = { t }
    /\ ~Overlapped(t, u)
    /\ requests[u] = 1
    /\ last_writer[date[u]] = u
    /\ ProviderEvents(events_by_date[date[u]]) = {}
    /\ \A d \in DOMAIN events_by_date : EventsFor(events_by_date[d], p) = {}


\* The day a well-formed request string names.
NamedDay(raw) == DayNumber(strptime(raw).ymd)

\* Task t receives a summary, countries or events request in this step.
ReceivesRead(t) == http[t].route = "none" /\ http'[t].route \in ReadRoutes

\* C25 (as stated): a summary, countries or events request for a well-formed
\* date calls fetch_and_aggregate only if the date has no entry when the
\* request is received, a request for a date that has one changes nothing
\* in the store, and no such request is answered 404.
C25_FetchOnMiss ==
  [][ \A t \in Tasks :
        /\ ( ReceivesRead(t) /\ strptime(http'[t].raw).ok )
             => /\ op'[t] = "fetch" => NamedDay(http'[t].raw) \notin DOMAIN events_by_date
                /\ NamedDay(http'[t].raw) \in DOMAIN events_by_date
                     => /\ events_by_date' = events_by_date
                        /\ op'[t] = "none"
        /\ ( http'[t].route \in ReadRoutes /\ strptime(http'[t].raw).ok )
             => http'[t].status # 404 ]_vars

\* The date 2024-01-01 has an entry, and a read request naming it as
\* "2024-1-1" has called fetch_and_aggregate, which returned, and has been
\* answered 404.
C25_Witness ==
  \E t \in Tasks :
    /\ http[t].route \in ReadRoutes
    /\ http[t].raw = << "2", "0", "2", "4", "-", "1", "-", "1" >>
    /\ strptime(http[t].raw).ok
    /\ op[t] = "fetch" /\ pc[t] = "done"
    /\ last_writer[NamedDay(http[t].raw)] = t
    /\ get_events_for_date(events_by_date, NamedDay(http[t].raw)) # << >>
    /\ http[t].status = 404


SevenDaysStored(today) ==
  \A k \in 1..StartupDays :
    /\ (today - k) \in DOMAIN events_by_date
    /\ events_by_date[today - k] # << >>

\* C21 (as stated): lifespan calls fetch_and_aggregate for each of the seven
\* days before the current one, each call started while no other is in
\* flight, and no request is answered before lifespan has yielded; so from
\* the moment requests are served the store has a non-empty entry for each of
\* the seven days before the day the process started, or before the day
\* serving began.
C21_StartupPopulatesSevenDays ==
  /\ [](serving => (SevenDaysStored(BootDay) \/ SevenDaysStored(BootDay + MaxMidnights)))
  /\ [][ /\ days_ago' # days_ago => \A t \in Tasks : ~InFlight(t)
          /\ http' # http => serving ]_vars

\* Midnight passed between two iterations of the loop: lifespan has made
\* its seven calls and yielded, and the store holds entries for six days.
C21_Witness ==
  /\ serving
  /\ days_ago = StartupDays
  /\ Cardinality(DOMAIN events_by_date) = StartupDays - 1
  /\ ~SevenDaysStored(BootDay)
  /\ ~SevenDaysStored(BootDay + MaxMidnights)

====
